---- MODULE Spec2Model ----
(***************************************************************************)
(* The annotation engine of ENVISION: AnnotationWrapper (annotation store  *)
(* and undo/redo history), AnnotationCanvas (pointer gestures, the fabric  *)
(* canvas and its shapes), AnnotationToolbar (tool selection, text modal)  *)
(* and AnnotationManager (delete).                                         *)
(*                                                                         *)
(* React semantics the model keeps:                                        *)
(*  - a callback is a closure over the values of the render that created   *)
(*    it; useCallback keeps the old closure until one of its dependencies  *)
(*    changes.  The record-valued variables mdMemo, mmMemo and muMemo hold *)
(*    what the current handleCanvasMouseDown / handleCanvasMouseMove /     *)
(*    handleCanvasMouseUp closures captured;                               *)
(*  - the fabric canvas keeps the handler functions it was given when it   *)
(*    was created (AnnotationCanvas effect with dependency [imageUrl]):    *)
(*    the variable reg holds what those registered closures captured;      *)
(*  - the state updates of one handler are applied together, and the       *)
(*    effects whose dependencies changed run right after.                  *)
(* History indices are 0-based as in the source: entry i of the source is  *)
(* annotationHistory[i + 1] here.                                          *)
(***************************************************************************)
EXTENDS Integers, Sequences, FiniteSets, TLC

\* ------------------------------------------------------------- bounds
\* Number of fabric objects (shapes and clones) created in one run.
MaxObj == 12
\* Longest list of collected revision-cloud points.
MaxDrawing == 3

\* ------------------------------------------------------------- values
VARIABLES
  annotations,        \* AnnotationWrapper: useState(initialAnnotations)
  annotationHistory,  \* AnnotationWrapper: useState([])
  historyIndex,       \* AnnotationWrapper: useState(-1)
  activeTool,         \* AnnotationWrapper: useState(null), "null" for null
  currentStyles,      \* AnnotationWrapper: useState({...})
  isMinimized,        \* AnnotationWrapper: useState(false)
  isDrawing,          \* AnnotationCanvas state
  drawingPoints,      \* AnnotationCanvas state
  dimensionStart,     \* AnnotationCanvas state, NoPoint for null
  currentAnnotation,  \* AnnotationCanvas state, NoAnnotation for null
  canvasObjects,      \* fabricCanvasRef.current.getObjects()
  mdMemo,             \* closure of the current handleCanvasMouseDown
  mmMemo,             \* closure of the current handleCanvasMouseMove
  muMemo,             \* closure of the current handleCanvasMouseUp
  reg,                \* closures registered on the fabric canvas
  showTextInput,      \* AnnotationToolbar state
  textInput,          \* AnnotationToolbar state
  clock,              \* the value Date.now() returned last
  nextObj,            \* identity of the next fabric object
  crashed,            \* an effect threw: React unmounted the tree
  scenario,           \* observer: adds and undos counted since the start
  undoFrom,           \* observer: the list an undo started from
  idlePointer,        \* observer: the last step was a pointer event, no tool active
  pendingClick,       \* observer: first click of a dimension awaiting its second
  visibleAnnotations, \* AnnotationManager: useState(new Set())
  shapeState,         \* the left and strokeWidth of each fabric object
  pressLog,           \* observer: the tools each point was pressed under
  captures,           \* CaptureManager: this.captures
  storage,            \* localStorage entry 'envision_captures'
  captureError,       \* an exception escaped an operation of the manager
  captureClock,       \* the milliseconds Date.now() has counted
  lastCapture,        \* observer: the manager's last operation
  imageData,          \* ImageProcessor: the pixels of its canvas
  lastFilter,         \* observer: the last filter and the pixels it was given
  imageWidth,         \* ImageProcessor: canvas.width
  filterError,        \* the message of the error the last filter threw
  processedImage,     \* ImageProcessing page: useState(null)
  imageHistory,       \* ImageProcessing page: useState([])
  imageHistoryIndex,  \* ImageProcessing page: historyIndex, useState(-1)
  filterParams,       \* ImageProcessing page: useState({})
  pendingFilters,     \* applyFilter calls waiting for their image to load
  pageLog             \* observer: the applyFilter calls started and completed

canvasTreeVars == <<annotations, annotationHistory, historyIndex, activeTool,
                    currentStyles, isMinimized, isDrawing, drawingPoints,
                    dimensionStart, currentAnnotation, canvasObjects, mdMemo,
                    mmMemo, muMemo, reg, showTextInput, textInput, clock,
                    nextObj, crashed,
                    scenario, undoFrom, idlePointer, pendingClick>>

engineVars == <<canvasTreeVars, visibleAnnotations, shapeState, pressLog>>

captureVars == <<captures, storage, captureError, captureClock, lastCapture>>
filterVars == <<imageData, lastFilter, imageWidth, filterError>>
pageVars == <<processedImage, imageHistory, imageHistoryIndex, filterParams,
              pendingFilters, pageLog>>

vars == <<engineVars, captureVars, filterVars, pageVars>>

wrapperVars == <<annotations, annotationHistory, historyIndex>>
canvasStateVars == <<isDrawing, drawingPoints, dimensionStart, currentAnnotation>>
toolbarVars == <<showTextInput, textInput>>
observerVars == <<scenario, undoFrom, idlePointer, pendingClick>>

\* Pointer positions the gestures use, as <<x, y>>.
Points == {<<0, 0>>, <<3, 4>>}
NoPoint == <<>>

\* Tool ids of the toolbar, by the case of handleCanvasMouseDown or the
\* branch of handleToolSelect they take.
DimensionTools == {"linear", "aligned", "angular"}
TextTools == {"single-text", "multiline-text", "field"}

\* Contents of the text modal: empty, blank, non-blank.
TextInputs == {"", " ", "note"}

\* useState initial value of currentStyles (one field kept).
DefaultStyles == [lineWidth |-> 2]

\* A fabric object is <<identity, identity of the shape it was cloned from>>;
\* a shape created by a tool is its own source.  Undefined is <<0, 0>>.
Undefined == <<0, 0>>
Shape(uid) == <<uid, uid>>

\* The data payload of a record; the fields a type does not set stay empty.
NoData ==
  [start |-> NoPoint, end |-> NoPoint, point |-> NoPoint, points |-> <<>>,
   content |-> "", distance |-> 0]
NoAnnotation ==
  [id |-> 0, type |-> "null", tool |-> "null", objects |-> <<>>,
   data |-> NoData, styles |-> DefaultStyles]

\* The record a caller may pass as initialAnnotations (no objects field),
\* created before this run: its id is older than any Date.now() of the run.
SampleAnnotation ==
  [id |-> 0, type |-> "text", tool |-> "single-text", objects |-> <<>>,
   data |-> NoData, styles |-> DefaultStyles]

\* ---------------------------------------------------------- closures
\* What handleAnnotationAdd / Update / Delete of the current render read.
AddEnv ==
  [annotations |-> annotations, annotationHistory |-> annotationHistory,
   historyIndex |-> historyIndex]

\* handleCanvasMouseDown and the create* callbacks it captured.
MdSnap ==
  [activeTool |-> activeTool, dimensionStart |-> dimensionStart,
   styles |-> currentStyles, add |-> AddEnv]

\* handleCanvasMouseMove and the drawRevisionCloud it captured.
MmSnap ==
  [isDrawing |-> isDrawing, activeTool |-> activeTool,
   drawingPoints |-> drawingPoints, currentAnnotation |-> currentAnnotation,
   styles |-> currentStyles]

\* handleCanvasMouseUp and the finalizeRevisionCloud it captured.
MuSnap ==
  [activeTool |-> activeTool, drawingPoints |-> drawingPoints,
   styles |-> currentStyles, add |-> AddEnv]

\* handleObjectModified / handleObjectRemoved: every value they read is in
\* their dependency lists, so the current closure reads the current state.
OmSnap == [currentAnnotation |-> currentAnnotation, add |-> AddEnv]

RegSnap == [md |-> mdMemo, mm |-> mmMemo, mu |-> muMemo, om |-> OmSnap]

\* ------------------------------------------------------- pure helpers
Range(s) == {s[i] : i \in 1..Len(s)}

Min(a, b) == IF a < b THEN a ELSE b

Last(s) == s[Len(s)]

\* All render shapes of a list of records, in forEach order.
RECURSIVE AllObjects(_)
AllObjects(anns) ==
  IF anns = <<>> THEN <<>>
  ELSE Head(anns).objects \o AllObjects(Tail(anns))

\* fabric.util.object.clone(obj): a new object with the content of obj.
Clone(obj, uid) == <<uid, obj[2]>>

\* The clones the load effect makes of objs, identities from uid on.
Clones(objs, uid) == [i \in 1..Len(objs) |-> Clone(objs[i], uid + i - 1)]

\* fabricCanvasRef.current.remove(obj): drops obj when it is on the canvas.
RemoveObject(canvas, obj) == SelectSeq(canvas, LAMBDA o : o # obj)

\* annotationHistory.slice(0, historyIndex + 1) followed by push.
PushHistory(env, newAnnotations) ==
  Append(SubSeq(env.annotationHistory, 1,
                Min(env.historyIndex + 1, Len(env.annotationHistory))),
         newAnnotations)

\* The store handlers leaving the history pointer where their closure saw it.
StoreResultKeepsIndex(env, newAnnotations) ==
  LET newHistory == PushHistory(env, newAnnotations)
  IN [annotations |-> newAnnotations, annotationHistory |-> newHistory,
      historyIndex |-> env.historyIndex]

\* The three state updates every store handler ends with.
StoreResult(env, newAnnotations) ==
  LET newHistory == PushHistory(env, newAnnotations)
  IN [annotations |-> newAnnotations, annotationHistory |-> newHistory,
      historyIndex |-> Len(newHistory) - 1]

handleAnnotationAdd(env, annotation) ==
  StoreResult(env, Append(env.annotations, annotation))

handleAnnotationUpdate(env, annotationId, updatedAnnotation) ==
  StoreResult(env,
    [i \in 1..Len(env.annotations) |->
       IF env.annotations[i].id = annotationId THEN updatedAnnotation
       ELSE env.annotations[i]])

handleAnnotationDelete(env, annotationId) ==
  StoreResult(env,
    SelectSeq(env.annotations, LAMBDA ann : ann.id # annotationId))

\* Assigns the result of a store handler to the wrapper's state.
SetStore(r) ==
  /\ annotations' = r.annotations
  /\ annotationHistory' = r.annotationHistory
  /\ historyIndex' = r.historyIndex

\* Numbers with a fraction are kept in hundredths, the precision at which
\* the dimension text shows a distance (toFixed(dimensionPrecision), 2).
DistanceScale == 100

\* Math.sqrt(n) in hundredths, rounded to the nearest.
Sqrt(n) ==
  LET scaled == n * DistanceScale * DistanceScale
  IN CHOOSE r \in 0..(n * DistanceScale) :
       /\ 4 * scaled <= (2 * r + 1) * (2 * r + 1)
       /\ r = 0 \/ (2 * r - 1) * (2 * r - 1) < 4 * scaled

\* Math.pow(x, 2)
Square(x) == x * x

\* The distance createDimension computes from start to end.
Distance(start, end) ==
  Sqrt(Square(end[1] - start[1]) + Square(end[2] - start[2]))

\* ------------------------------------------------------------ render
\* The useCallback memos after a render: a closure is replaced by one over
\* the new state when one of its dependencies changed (md: activeTool,
\* dimensionStart, dimensionEnd; mm: isDrawing, activeTool; mu: activeTool).
Rerender(mdDeps, mmDeps, muDeps) ==
  /\ mdMemo' = IF mdDeps THEN MdSnap' ELSE mdMemo
  /\ mmMemo' = IF mmDeps THEN MmSnap' ELSE mmMemo
  /\ muMemo' = IF muDeps THEN MuSnap' ELSE muMemo

\* The "load existing annotations" effect, run after a render in which the
\* annotations prop changed: every shape of every record is cloned onto the
\* canvas.  canvas and uid are the canvas and the next identity the handler
\* left.  Reading .type of an undefined shape throws.
LoadEffect(canvas, uid) ==
  LET objs == AllObjects(annotations')
  IN IF annotations' = <<>>
       THEN canvasObjects' = canvas /\ nextObj' = uid /\ crashed' = FALSE
     ELSE IF Undefined \in Range(objs)
       THEN canvasObjects' = <<>> /\ nextObj' = uid /\ crashed' = TRUE
     ELSE /\ canvasObjects' = canvas \o Clones(objs, uid)
          /\ nextObj' = uid + Len(objs)
          /\ crashed' = FALSE

WithinBounds == nextObj' <= MaxObj + 1

Mounted == ~isMinimized /\ ~crashed

\* -------------------------------------------------- primitive factory
\* The record a create* callback builds: id from Date.now(), the tool and
\* the styles of the closure that builds it.  Every gesture carries dt, the
\* milliseconds Date.now() has advanced since the last record was created.
Annotation(env, now, type, objects, data) ==
  [id |-> now, type |-> type, tool |-> env.activeTool,
   objects |-> objects, data |-> data, styles |-> env.styles]

\* Common end of createDimension, createCircleDimension, createLeader,
\* createCenterline and createHatchPattern: the shapes are added to the
\* canvas, the record goes to the onAnnotationAdd the closure captured and
\* becomes currentAnnotation; then the load effect runs.
Create(env, dt, type, nShapes, data) ==
  LET shapes == [i \in 1..nShapes |-> Shape(nextObj + i - 1)]
      annotation == Annotation(env, clock + dt, type, shapes, data)
  IN /\ clock' = clock + dt
     /\ SetStore(handleAnnotationAdd(env.add, annotation))
     /\ currentAnnotation' = annotation
     /\ LoadEffect(canvasObjects \o shapes, nextObj + nShapes)
     /\ WithinBounds

\* A press that only stores the pending start point.
SetDimensionStart(point) ==
  /\ dimensionStart' = point
  /\ UNCHANGED <<wrapperVars, isDrawing, drawingPoints, currentAnnotation,
                 canvasObjects, clock, nextObj, crashed>>
  /\ Rerender(TRUE, FALSE, FALSE)

\* createDimension / createCenterline with a pending start in the closure:
\* the record is created and the pending start is reset.
CreateTwoPoint(env, dt, type, nShapes, endPoint) ==
  /\ Create(env, dt, type, nShapes,
            [NoData EXCEPT !.start = env.dimensionStart, !.end = endPoint,
                           !.distance = IF type = "dimension"
                                          THEN Distance(env.dimensionStart,
                                                        endPoint)
                                        ELSE 0])
  /\ dimensionStart' = NoPoint
  /\ UNCHANGED <<isDrawing, drawingPoints>>
  /\ Rerender(dimensionStart # NoPoint, FALSE, FALSE)

\* createCircleDimension, createLeader, createHatchPattern: one click.
CreateOnePoint(env, dt, type, nShapes, data) ==
  /\ Create(env, dt, type, nShapes, data)
  /\ UNCHANGED <<isDrawing, drawingPoints, dimensionStart>>
  /\ Rerender(FALSE, FALSE, FALSE)

NoEffect == UNCHANGED <<wrapperVars, canvasStateVars, canvasObjects, mdMemo,
                        mmMemo, muMemo, clock, nextObj, crashed>>

\* Number of line segments createHatchPattern draws: two loops over
\* i = 0, 5, ..., 45.
HatchLines == 20

\* handleCanvasMouseDown without its !activeTool guard: a press with no
\* tool falls into the leader case.
handleCanvasMouseDownWithoutToolGuard(env, point, dt) ==
  IF env.activeTool \in {"null", "leader", "multileader"} THEN
    CreateOnePoint(env, dt, "leader", 2, [NoData EXCEPT !.point = point])
  ELSE NoEffect

\* handleCanvasMouseDown as registered on the canvas (isReadOnly is false).
handleCanvasMouseDown(env, point, dt) ==
  IF env.activeTool = "null" THEN NoEffect
  ELSE IF env.activeTool \in DimensionTools THEN
    IF env.dimensionStart = NoPoint THEN SetDimensionStart(point)
    ELSE CreateTwoPoint(env, dt, "dimension", 2, point)
  ELSE IF env.activeTool \in {"radius", "diameter"} THEN
    CreateOnePoint(env, dt, "circle", 2, [NoData EXCEPT !.point = point])
  ELSE IF env.activeTool \in {"leader", "multileader"} THEN
    CreateOnePoint(env, dt, "leader", 2, [NoData EXCEPT !.point = point])
  ELSE IF env.activeTool = "centerline" THEN
    IF env.dimensionStart = NoPoint THEN SetDimensionStart(point)
    ELSE CreateTwoPoint(env, dt, "centerline", 1, point)
  ELSE IF env.activeTool = "revision-cloud" THEN
    /\ isDrawing' = TRUE
    /\ drawingPoints' = <<point>>
    /\ UNCHANGED <<wrapperVars, dimensionStart, currentAnnotation,
                   canvasObjects, clock, nextObj, crashed>>
    /\ Rerender(FALSE, ~isDrawing, FALSE)
  ELSE IF env.activeTool = "hatch" THEN
    CreateOnePoint(env, dt, "hatch", HatchLines, [NoData EXCEPT !.point = point])
  ELSE NoEffect

\* What a pointer event leaves alone whatever the handler does.
GestureFrame ==
  UNCHANGED <<activeTool, currentStyles, isMinimized, reg, toolbarVars>>

MouseDown(point, dt) ==
  /\ Mounted
  /\ GestureFrame
  /\ handleCanvasMouseDown(reg.md, point, dt)

\* handleObjectRemoved as registered: fired by canvas.remove(removedObject).
\* Gives the store the handler leaves, as a store result.
handleObjectRemoved(env, removedObject) ==
  IF removedObject \in Range(env.currentAnnotation.objects)
    THEN handleAnnotationDelete(env.add, env.currentAnnotation.id)
  ELSE AddEnv

\* drawRevisionCloud of the closure env: the first shape of the closure's
\* currentAnnotation is removed from the canvas (which fires object:removed
\* when the shape was on it), then a new path is added.
drawRevisionCloud(env) ==
  IF Len(env.drawingPoints) < 2
    THEN UNCHANGED <<wrapperVars, canvasObjects, nextObj, crashed>>
  ELSE
    LET objs == env.currentAnnotation.objects
        hasFirst == objs # <<>> /\ objs[1] # Undefined
        onCanvas == hasFirst /\ objs[1] \in Range(canvasObjects)
        canvas1 == IF onCanvas THEN RemoveObject(canvasObjects, objs[1])
                   ELSE canvasObjects
        path == Shape(nextObj)
    IN IF onCanvas /\ objs[1] \in Range(reg.om.currentAnnotation.objects)
         THEN /\ SetStore(handleObjectRemoved(reg.om, objs[1]))
              /\ LoadEffect(Append(canvas1, path), nextObj + 1)
              /\ WithinBounds
       ELSE /\ UNCHANGED wrapperVars
            /\ canvasObjects' = Append(canvas1, path)
            /\ nextObj' = nextObj + 1
            /\ crashed' = FALSE
            /\ WithinBounds

\* handleCanvasMouseMove as registered on the canvas.
handleCanvasMouseMove(env, point) ==
  IF ~env.isDrawing \/ env.activeTool = "null" THEN NoEffect
  ELSE IF env.activeTool = "revision-cloud" THEN
    /\ Len(drawingPoints) < MaxDrawing
    /\ drawingPoints' = Append(drawingPoints, point)
    /\ drawRevisionCloud(env)
    /\ UNCHANGED <<isDrawing, dimensionStart, currentAnnotation, clock>>
    /\ Rerender(FALSE, FALSE, FALSE)
  ELSE NoEffect

MouseMove(point) ==
  /\ Mounted
  /\ GestureFrame
  /\ handleCanvasMouseMove(reg.mm, point)

\* finalizeRevisionCloud of the closure env: the record's shape is the last
\* object of the canvas (undefined when the canvas is empty).
finalizeRevisionCloud(env, dt) ==
  IF Len(env.drawingPoints) < 3
    THEN UNCHANGED <<wrapperVars, drawingPoints, currentAnnotation,
                     canvasObjects, clock, nextObj, crashed>>
  ELSE
    LET path == IF canvasObjects = <<>> THEN Undefined
                ELSE Last(canvasObjects)
        annotation ==
          Annotation(env, clock + dt, "revision-cloud", <<path>>,
                     [NoData EXCEPT !.points = env.drawingPoints])
    IN /\ clock' = clock + dt
       /\ SetStore(handleAnnotationAdd(env.add, annotation))
       /\ currentAnnotation' = annotation
       /\ drawingPoints' = <<>>
       /\ LoadEffect(canvasObjects, nextObj)
       /\ WithinBounds

\* handleCanvasMouseUp as registered on the canvas.
handleCanvasMouseUp(env, dt) ==
  IF env.activeTool = "revision-cloud" THEN
    /\ isDrawing' = FALSE
    /\ finalizeRevisionCloud(env, dt)
    /\ UNCHANGED dimensionStart
    /\ Rerender(FALSE, isDrawing, FALSE)
  ELSE NoEffect

MouseUp(dt) ==
  /\ Mounted
  /\ GestureFrame
  /\ handleCanvasMouseUp(reg.mu, dt)

\* handleObjectModified as registered: the user moved or resized a shape.
handleObjectModified(env, modifiedObject) ==
  IF modifiedObject \in Range(env.currentAnnotation.objects) THEN
    /\ SetStore(handleAnnotationUpdate(env.add, env.currentAnnotation.id,
                                       env.currentAnnotation))
    /\ LoadEffect(canvasObjects, nextObj)
    /\ WithinBounds
    /\ UNCHANGED <<canvasStateVars, clock>>
    /\ Rerender(FALSE, FALSE, FALSE)
  ELSE NoEffect

ObjectModified(target) ==
  /\ Mounted
  /\ target \in Range(canvasObjects)
  /\ GestureFrame
  /\ handleObjectModified(reg.om, target)

\* A shape is removed from the canvas by the user (canvas.remove fires
\* object:removed): the registered handleObjectRemoved runs, and the load
\* effect after it when it changed the list.
ObjectRemoved(target) ==
  /\ Mounted
  /\ target \in Range(canvasObjects)
  /\ GestureFrame
  /\ IF target \in Range(reg.om.currentAnnotation.objects)
       THEN /\ SetStore(handleObjectRemoved(reg.om, target))
            /\ LoadEffect(RemoveObject(canvasObjects, target), nextObj)
            /\ WithinBounds
     ELSE /\ canvasObjects' = RemoveObject(canvasObjects, target)
          /\ UNCHANGED <<wrapperVars, nextObj, crashed>>
  /\ UNCHANGED <<canvasStateVars, clock>>
  /\ Rerender(FALSE, FALSE, FALSE)

\* ------------------------------------------------------ history stack
\* What an action of the wrapper or the manager leaves alone.
StoreFrame ==
  UNCHANGED <<activeTool, currentStyles, isMinimized, canvasStateVars, reg,
              toolbarVars, clock>>

\* handleUndo restoring the entry at the old pointer instead of the new one.
handleUndoKeepsEntry ==
  IF historyIndex > 0 THEN
    /\ historyIndex' = historyIndex - 1
    /\ annotations' = annotationHistory[historyIndex + 1]
    /\ UNCHANGED annotationHistory
    /\ LoadEffect(canvasObjects, nextObj)
    /\ WithinBounds
  ELSE UNCHANGED <<wrapperVars, canvasObjects, nextObj, crashed>>

handleUndo ==
  IF historyIndex > 0 THEN
    /\ historyIndex' = historyIndex - 1
    /\ annotations' = annotationHistory[historyIndex]
    /\ UNCHANGED annotationHistory
    /\ LoadEffect(canvasObjects, nextObj)
    /\ WithinBounds
  ELSE UNCHANGED <<wrapperVars, canvasObjects, nextObj, crashed>>

\* handleRedo moving the pointer without restoring the entry.
handleRedoKeepsList ==
  IF historyIndex < Len(annotationHistory) - 1 THEN
    /\ historyIndex' = historyIndex + 1
    /\ UNCHANGED <<annotations, annotationHistory, canvasObjects, nextObj,
                   crashed>>
  ELSE UNCHANGED <<wrapperVars, canvasObjects, nextObj, crashed>>

handleRedo ==
  IF historyIndex < Len(annotationHistory) - 1 THEN
    /\ historyIndex' = historyIndex + 1
    /\ annotations' = annotationHistory[historyIndex + 2]
    /\ UNCHANGED annotationHistory
    /\ LoadEffect(canvasObjects, nextObj)
    /\ WithinBounds
  ELSE UNCHANGED <<wrapperVars, canvasObjects, nextObj, crashed>>

\* handleToolbarAction: what the toolbar's onAnnotationAdd prop is bound to.
handleToolbarAction(type) ==
  IF type = "undo" THEN handleUndo
  ELSE IF type = "redo" THEN handleRedo
  ELSE UNCHANGED <<wrapperVars, canvasObjects, nextObj, crashed>>

\* The Undo buttons (quick actions, toolbar header).
Undo ==
  /\ Mounted
  /\ StoreFrame
  /\ handleToolbarAction("undo")
  /\ Rerender(FALSE, FALSE, FALSE)

Redo ==
  /\ Mounted
  /\ StoreFrame
  /\ handleToolbarAction("redo")
  /\ Rerender(FALSE, FALSE, FALSE)

\* AnnotationManager.deleteAnnotation, confirmed by the user, on a listed
\* record: the manager is rendered with the current handleAnnotationDelete.
ManagerDelete(annotationId) ==
  /\ Mounted
  /\ \E i \in 1..Len(annotations) : annotations[i].id = annotationId
  /\ StoreFrame
  /\ SetStore(handleAnnotationDelete(AddEnv, annotationId))
  /\ LoadEffect(canvasObjects, nextObj)
  /\ WithinBounds
  /\ Rerender(FALSE, FALSE, FALSE)

\* AnnotationManager.deleteAllAnnotations, confirmed by the user: forEach
\* calls the handleAnnotationDelete of the current render once per record;
\* every call computes its result from the same closure and the state
\* updates of the last call are the ones that remain.
ManagerDeleteAll ==
  /\ Mounted
  /\ StoreFrame
  /\ IF annotations = <<>>
       THEN UNCHANGED <<wrapperVars, canvasObjects, nextObj, crashed>>
     ELSE
       LET results == [i \in 1..Len(annotations) |->
                         handleAnnotationDelete(AddEnv, annotations[i].id)]
       IN /\ SetStore(Last(results))
          /\ LoadEffect(canvasObjects, nextObj)
          /\ WithinBounds
  /\ Rerender(FALSE, FALSE, FALSE)

\* ------------------------------------------------------------ toolbar
\* toolId.includes('text') || toolId === 'field'
IsTextTool(toolId) == toolId \in TextTools

\* textInput.trim()
Trim(text) == IF text \in {"", " "} THEN "" ELSE text

\* AnnotationToolbar.handleToolSelect and the wrapper's handleToolSelect.
SelectTool(toolId) ==
  /\ Mounted
  /\ activeTool' = toolId
  /\ showTextInput' = (IF IsTextTool(toolId) THEN TRUE ELSE showTextInput)
  /\ UNCHANGED <<wrapperVars, currentStyles, isMinimized, canvasStateVars,
                 canvasObjects, reg, textInput, clock, nextObj, crashed>>
  /\ Rerender(toolId # activeTool, toolId # activeTool, toolId # activeTool)

\* Typing in the text modal.
ChangeText(text) ==
  /\ Mounted
  /\ showTextInput
  /\ textInput' = text
  /\ UNCHANGED <<wrapperVars, activeTool, currentStyles, isMinimized,
                 canvasStateVars, canvasObjects, mdMemo, mmMemo, muMemo, reg,
                 showTextInput, clock, nextObj, crashed>>

\* AnnotationToolbar.handleTextSubmit: the text record is handed to
\* onAnnotationAdd, which the wrapper binds to handleToolbarAction.
TextSubmit ==
  /\ Mounted
  /\ showTextInput
  /\ UNCHANGED <<activeTool, currentStyles, isMinimized, canvasStateVars,
                 reg, clock>>
  /\ IF Trim(textInput) # "" THEN
       /\ handleToolbarAction("text")
       /\ textInput' = ""
       /\ showTextInput' = FALSE
     ELSE UNCHANGED <<wrapperVars, canvasObjects, nextObj, crashed,
                      toolbarVars>>
  /\ Rerender(FALSE, FALSE, FALSE)

\* The modal's Cancel button.
TextCancel ==
  /\ Mounted
  /\ showTextInput
  /\ showTextInput' = FALSE
  /\ UNCHANGED <<wrapperVars, activeTool, currentStyles, isMinimized,
                 canvasStateVars, canvasObjects, mdMemo, mmMemo, muMemo, reg,
                 textInput, clock, nextObj, crashed>>

\* Line widths the toolbar's style panel can set (the default and another).
LineWidths == {2, 3}

\* AnnotationToolbar.handleStyleChange and the wrapper's handleStyleChange:
\* the new styles become currentStyles.  No pointer handler has styles in
\* its dependency list, so no memo is renewed.  (The canvas' style effect
\* restyles the fabric objects of currentAnnotation; the model's shapes
\* carry no style attributes.)
StyleChange(lineWidth) ==
  /\ Mounted
  /\ currentStyles' = [currentStyles EXCEPT !.lineWidth = lineWidth]
  /\ UNCHANGED <<wrapperVars, activeTool, isMinimized, canvasStateVars,
                 canvasObjects, reg, toolbarVars, clock, nextObj, crashed>>
  /\ Rerender(FALSE, FALSE, FALSE)

\* ------------------------------------------------- canvas life cycle
\* The header's minimize button: AnnotationCanvas is rendered only while
\* !isMinimized, so it is unmounted (its state and canvas are dropped) and
\* mounted again with fresh state; mounting creates the fabric canvas,
\* registers the closures of that first render and runs the load effect.
ToggleMinimize ==
  /\ ~crashed
  /\ isMinimized' = ~isMinimized
  /\ UNCHANGED <<wrapperVars, activeTool, currentStyles, toolbarVars, clock>>
  /\ isDrawing' = FALSE
  /\ drawingPoints' = <<>>
  /\ dimensionStart' = NoPoint
  /\ currentAnnotation' = NoAnnotation
  /\ Rerender(TRUE, TRUE, TRUE)
  /\ reg' = RegSnap'
  /\ IF isMinimized
       THEN LoadEffect(<<>>, nextObj) /\ WithinBounds
     ELSE canvasObjects' = <<>> /\ UNCHANGED <<nextObj, crashed>>

\* The imageUrl prop changes: the effect's cleanup disposes the canvas and
\* the effect creates a new one, registering the closures of this render.
ChangeImage ==
  /\ Mounted
  /\ canvasObjects' = <<>>
  /\ reg' = RegSnap
  /\ UNCHANGED <<wrapperVars, activeTool, currentStyles, isMinimized,
                 canvasStateVars, mdMemo, mmMemo, muMemo, toolbarVars, clock,
                 nextObj, crashed>>

\* ---------------------------------------------------------- observers
\* scenario, undoFrom, idlePointer and pendingClick record what happened,
\* for the properties about sequences of operations; no operation of the
\* engine reads them.  They are kept only in the specifications that track
\* them (Track); a step of the annotation engine leaves the capture
\* manager and the image processor alone.
\* scenario: the run so far is scenario.adds record creations followed by
\* scenario.undos presses of Undo, and nothing else changed the store
\* (scenario.ok), from a wrapper given no initial annotations.
Broken == [adds |-> 0, undos |-> 0, ok |-> FALSE]

NoUndo == [phase |-> "none", annotations |-> <<>>, index |-> -1]

\* AnnotationManager's "initialize visible annotations" effect, with
\* [annotations] as its dependencies: after a step that changed the list
\* every record is visible; so it is when the manager is mounted again.
VisibleIds(list) == {list[i].id : i \in DOMAIN list}

ManagerEffect ==
  visibleAnnotations' =
    IF annotations' # annotations \/ isMinimized' # isMinimized
      THEN VisibleIds(annotations')
    ELSE visibleAnnotations

\* What the manager's visibility controls leave alone: everything but the
\* manager's set of visible ids.
VisibilityFrame ==
  /\ UNCHANGED <<canvasTreeVars, shapeState, pressLog>>
  /\ UNCHANGED <<captureVars, filterVars, pageVars>>

\* AnnotationManager.toggleAnnotationVisibility on a listed record.
toggleAnnotationVisibility(annotationId) ==
  /\ ~isMinimized /\ ~crashed
  /\ annotationId \in VisibleIds(annotations)
  /\ visibleAnnotations' =
       IF annotationId \in visibleAnnotations
         THEN visibleAnnotations \ {annotationId}
       ELSE visibleAnnotations \cup {annotationId}
  /\ VisibilityFrame

\* AnnotationManager.toggleAllAnnotations (show all, hide all).
toggleAllAnnotations(visible) ==
  /\ ~isMinimized /\ ~crashed
  /\ visibleAnnotations' =
       IF visible THEN VisibleIds(annotations) ELSE {}
  /\ VisibilityFrame

Track(track, update) ==
  /\ IF track THEN update ELSE UNCHANGED observerVars
  /\ ManagerEffect
  /\ UNCHANGED <<shapeState, pressLog>>
  /\ UNCHANGED <<captureVars, filterVars, pageVars>>

\* A step that leaves the store alone.
NoteOther ==
  /\ UNCHANGED <<scenario, pendingClick>>
  /\ undoFrom' = NoUndo
  /\ idlePointer' = FALSE

\* The canvas is unmounted or mounted: a pending first click is dropped.
NoteRemount ==
  /\ UNCHANGED scenario
  /\ undoFrom' = NoUndo
  /\ idlePointer' = FALSE
  /\ pendingClick' = NoPoint

\* A delete, update or redo.
NoteStoreChange ==
  /\ scenario' = Broken
  /\ undoFrom' = NoUndo
  /\ idlePointer' = FALSE
  /\ UNCHANGED pendingClick

\* A pointer gesture: it created a record exactly when Date.now() advanced
\* (dt is 1 in the specifications that track).
NoteCreation ==
  /\ scenario' =
       IF clock' # clock THEN
         IF scenario.ok /\ scenario.undos = 0
           THEN [scenario EXCEPT !.adds = @ + 1]
         ELSE Broken
       ELSE IF annotations' # annotations THEN Broken
       ELSE scenario
  /\ undoFrom' = NoUndo
  /\ idlePointer' = (activeTool = "null")

\* A pointer move or release, or a shape moved by the user.
NoteGesture == NoteCreation /\ UNCHANGED pendingClick

\* A pointer press at point: with a dimension tool active, the first press
\* is awaited by a second one, and the second press completes the pair.
NotePress(point) ==
  /\ NoteCreation
  /\ pendingClick' =
       IF activeTool \in DimensionTools
         THEN IF pendingClick = NoPoint THEN point ELSE NoPoint
       ELSE pendingClick

\* A press of Undo, with the list and pointer it started from.
NoteUndo ==
  /\ scenario' =
       IF scenario.ok /\ scenario.undos < scenario.adds
         THEN [scenario EXCEPT !.undos = @ + 1]
       ELSE Broken
  /\ undoFrom' =
       IF Len(annotationHistory) > 0
         THEN [phase |-> "undone", annotations |-> annotations,
               index |-> historyIndex]
       ELSE NoUndo
  /\ idlePointer' = FALSE
  /\ UNCHANGED pendingClick

\* A press of Redo: right after an Undo it completes the pair.
NoteRedo ==
  /\ scenario' = Broken
  /\ undoFrom' = IF undoFrom.phase = "undone"
                   THEN [undoFrom EXCEPT !.phase = "redone"]
                 ELSE NoUndo
  /\ idlePointer' = FALSE
  /\ UNCHANGED pendingClick

\* ------------------------------------------------------ fabric objects
\* A record holds references to its fabric objects, and so does every
\* history entry that holds the record: the left and the strokeWidth of
\* an object are kept once, under its identity, in shapeState.  The
\* specifications that do not follow the geometry of the shapes leave
\* shapeState alone (Track); the others take their steps with ShapeTrack.
Positions == {0, 1}

\* No shape is drawn once this many objects have been made.
MaxTracked == 4

NoShape == 0

\* The objects the records refer to; the clones the load effect puts on
\* the canvas are not followed.
ObjectsOf(anns, current) ==
  Range(AllObjects(anns)) \cup Range(current.objects)

\* The state of the fabric objects after a step in which the user dragged
\* the object moved to left (NoShape: nothing was dragged).  A shape a
\* tool created in the step is drawn at left 0 with the strokeWidth of the
\* styles its record was created with; then the style effect, when
\* currentStyles or currentAnnotation changed, sets the strokeWidth of the
\* objects of currentAnnotation.
ShapesAfter(moved, left) ==
  LET dragged == IF moved \in DOMAIN shapeState
                   THEN [shapeState EXCEPT ![moved].left = left]
                 ELSE shapeState
      created == [left |-> 0,
                  strokeWidth |-> currentAnnotation'.styles.lineWidth]
      objects == ObjectsOf(annotations', currentAnnotation')
      known == DOMAIN dragged \cup {o[1] : o \in objects}
      loaded == [uid \in known |->
                   IF uid \in DOMAIN dragged THEN dragged[uid] ELSE created]
      restyled == {o[1] : o \in Range(currentAnnotation'.objects)}
  IN IF currentStyles' # currentStyles
          \/ currentAnnotation' # currentAnnotation
       THEN [uid \in known |->
               IF uid \in restyled
                 THEN [loaded[uid] EXCEPT
                         !.strokeWidth = currentStyles'.lineWidth]
               ELSE loaded[uid]]
     ELSE loaded

ShapeTrack(moved, left) ==
  /\ shapeState' = ShapesAfter(moved, left)
  /\ UNCHANGED <<observerVars, pressLog>>
  /\ ManagerEffect
  /\ UNCHANGED <<captureVars, filterVars, pageVars>>

\* The user drags a shape of the canvas to another place: fabric moves the
\* object and fires object:modified.
DragShape(target, left) ==
  /\ target[1] \in DOMAIN shapeState
  /\ shapeState[target[1]].left # left
  /\ ObjectModified(target)
  /\ ShapeTrack(target[1], left)


\* pressLog records, for each point, the tools that were active when the
\* pointer was pressed on it; it is followed by the specifications that
\* take their steps with PressTrack.
PressTrack(log) ==
  /\ pressLog' = log
  /\ UNCHANGED <<observerVars, shapeState>>
  /\ ManagerEffect
  /\ UNCHANGED <<captureVars, filterVars, pageVars>>

Pressed(point) == [pressLog EXCEPT ![point] = @ \cup {activeTool}]

\* ----------------------------------------------------- capture manager
\* captureManager.js keeps the captured images of the camera page in
\* this.captures and mirrors them in one localStorage entry.

\* Date.now() of a capture: the milliseconds counted so far plus dt.
MaxCaptureClock == 2
MaxCaptures == 3

\* Math.random().toString(36).substr(2, 9), the second half of an id.
Suffixes == {"a", "b"}

CaptureIds == (1..MaxCaptureClock) \X Suffixes

\* calibration.magnification as the camera page passes it: a number, or
\* NaN once the number input has been cleared (parseInt of ""); JSON has
\* no NaN and serializes it as null.  The values are written as strings.
Magnifications == {"100", "NaN"}

\* The metadata of a capture: each default is computed with ||, then the
\* spread of the caller's metadata overrides it with the caller's value.
Metadata(magnification) ==
  LET defaults == [magnification |-> IF magnification = "NaN"
                                       THEN "Unknown"
                                     ELSE magnification]
  IN [defaults EXCEPT !.magnification = magnification]

Capture(now, suffix, magnification) ==
  [id |-> <<now, suffix>>, timestamp |-> now,
   metadata |-> Metadata(magnification)]

\* JSON.stringify of a capture and of the list, and the storage entry
\* that holds the text; JSON.parse gives back the values of the text.
JsonCapture(capture) ==
  [capture EXCEPT !.metadata.magnification =
     IF @ = "NaN" THEN "null" ELSE @]

Stringify(list) ==
  [state |-> "json", value |-> [i \in DOMAIN list |-> JsonCapture(list[i])]]

NoEntry == [state |-> "absent", value |-> <<>>]
CorruptEntry == [state |-> "corrupt", value |-> <<>>]

\* loadCaptures: the parsed entry, or [] when there is none, when getItem
\* throws and when the text does not parse.
loadCaptures(entry, readThrows) ==
  IF readThrows THEN <<>>
  ELSE IF entry.state = "absent" THEN <<>>
  ELSE IF entry.state = "corrupt" THEN <<>>
  ELSE entry.value

\* saveCaptures without its try/catch: the exception of setItem escapes.
saveCapturesWithoutCatch(entry, list, writeThrows) ==
  [entry |-> IF writeThrows THEN entry ELSE Stringify(list),
   raised |-> writeThrows]

\* saveCaptures: the entry after the call and whether an exception left
\* the call; a setItem that throws leaves the entry as it was.
saveCaptures(entry, list, writeThrows) ==
  [entry |-> IF writeThrows THEN entry ELSE Stringify(list),
   raised |-> FALSE]

\* addCapture with push in place of unshift.
addCaptureAtEnd(list, capture) == Append(list, capture)

\* addCapture's change of the list: unshift.
addCapture(list, capture) == <<capture>> \o list

\* findIndex(capture => capture.id === id), 0 for -1.
FindIndex(list, id) ==
  IF \E i \in DOMAIN list : list[i].id = id
    THEN CHOOSE i \in DOMAIN list :
           /\ list[i].id = id
           /\ \A j \in 1..(i - 1) : list[j].id # id
  ELSE 0

\* splice(index, 1)
Splice(list, index) ==
  [i \in 1..(Len(list) - 1) |-> IF i < index THEN list[i] ELSE list[i + 1]]

CaptureFrame == UNCHANGED <<engineVars, filterVars, pageVars>>

CaptureOp(op, returned, failed) ==
  [op |-> op, returned |-> returned, failed |-> failed]

\* The module is evaluated again (the page is reloaded): a new manager is
\* constructed and loads the entry.
Construct(readThrows) ==
  /\ captures' = loadCaptures(storage, readThrows)
  /\ captureError' = FALSE
  /\ lastCapture' = CaptureOp("load", TRUE, readThrows)
  /\ UNCHANGED <<storage, captureClock>>
  /\ CaptureFrame

AddCapture(dt, suffix, magnification, writeThrows) ==
  LET now == captureClock + dt
      list == addCapture(captures, Capture(now, suffix, magnification))
      saved == saveCaptures(storage, list, writeThrows)
  IN /\ now <= MaxCaptureClock
     /\ Len(captures) < MaxCaptures
     /\ captureClock' = now
     /\ captures' = list
     /\ storage' = saved.entry
     /\ captureError' = saved.raised
     /\ lastCapture' = CaptureOp("add", TRUE, writeThrows)
     /\ CaptureFrame

DeleteCapture(id, writeThrows) ==
  LET index == FindIndex(captures, id)
      list == Splice(captures, index)
      saved == saveCaptures(storage, list, writeThrows)
  IN /\ IF index > 0
          THEN /\ captures' = list
               /\ storage' = saved.entry
               /\ captureError' = saved.raised
               /\ lastCapture' = CaptureOp("delete", TRUE, writeThrows)
        ELSE /\ captureError' = FALSE
             /\ lastCapture' = CaptureOp("delete", FALSE, FALSE)
             /\ UNCHANGED <<captures, storage>>
     /\ UNCHANGED captureClock
     /\ CaptureFrame

ClearAllCaptures(writeThrows) ==
  LET saved == saveCaptures(storage, <<>>, writeThrows)
  IN /\ captures' = <<>>
     /\ storage' = saved.entry
     /\ captureError' = saved.raised
     /\ lastCapture' = CaptureOp("clear", TRUE, writeThrows)
     /\ UNCHANGED captureClock
     /\ CaptureFrame

\* ------------------------------------------------------ image processor
\* ImageProcessor (part_001) filters the pixels of its canvas in place:
\* getImageData, a loop over the pixels, putImageData.  A pixel is
\* <<R, G, B, A>>, the four bytes of the Uint8ClampedArray.

MaxImage == 2

Pixels == {<<200, 200, 200, 255>>, <<50, 50, 50, 255>>,
           <<200, 100, 50, 128>>, <<1, 113, 205, 255>>,
           <<0, 0, 250, 255>>, <<0, 255, 0, 255>>}

Images == UNION {[1..n -> Pixels] : n \in 1..MaxImage}

DefaultThreshold == 128
ThresholdValues == {90, DefaultThreshold}

\* The weights of the luminance, in thousandths.
RedWeight == 299
GreenWeight == 587
BlueWeight == 114

\* R * 0.299 + G * 0.587 + B * 0.114 is evaluated in binary64: none of
\* the three weights is the decimal it is written as, and each product
\* and each sum is rounded.  For a gray pixel (R = G = B = v) the computed
\* sum is v itself or, for the values of GraysBelow, the binary64 next
\* below v; it is never above v.
GraysBelow ==
  {1, 2, 4, 8, 11, 13, 16, 22, 26, 27, 32, 39, 44, 51, 52, 54, 57, 59,
   61, 64, 78, 81, 88, 91, 95, 101, 102, 104, 108, 114, 115, 118, 122,
   127, 128, 143, 149, 156, 157, 162, 169, 175, 176, 182, 183, 190,
   195, 202, 203, 204, 208, 209, 216, 223, 225, 228, 230, 235, 236,
   239, 241, 244, 249, 251, 254}

\* RoundingError is the sign of the computed sum minus the exact
\* luminance, for the pixels the filters meet here: (1, 113, 205) has
\* luminance 90 and evaluates to 90.00000000000001, (200, 100, 50) has
\* 124.2 and (0, 255, 0) has 149.685 and both evaluate to a binary64
\* above it, (0, 0, 250) evaluates to 28.5 exactly.
RoundingError(pixel) ==
  CASE <<pixel[1], pixel[2], pixel[3]>> = <<1, 113, 205>> -> 1
    [] <<pixel[1], pixel[2], pixel[3]>> = <<200, 100, 50>> -> 1
    [] <<pixel[1], pixel[2], pixel[3]>> = <<0, 255, 0>> -> 1
    [] /\ pixel[1] = pixel[2]
       /\ pixel[2] = pixel[3]
       /\ pixel[1] \in GraysBelow -> -1
    [] OTHER -> 0

\* The number gray of the loops: its exact part in thousandths and the
\* sign of what the evaluation added to it.
Luminance(pixel) ==
  [thousandths |-> pixel[1] * RedWeight + pixel[2] * GreenWeight
                     + pixel[3] * BlueWeight,
   error |-> RoundingError(pixel)]

\* gray > value
GreaterThan(gray, value) ==
  \/ gray.thousandths > 1000 * value
  \/ gray.thousandths = 1000 * value /\ gray.error > 0

\* The store of a number into a Uint8ClampedArray: the nearest integer,
\* the even one of the two when the number is halfway, within 0..255.
ToUint8Clamped(gray) ==
  LET floor == gray.thousandths \div 1000
      rest == gray.thousandths % 1000
      nearest == IF rest > 500 THEN floor + 1
                 ELSE IF rest < 500 THEN floor
                 ELSE IF gray.error > 0 THEN floor + 1
                 ELSE IF gray.error < 0 THEN floor
                 ELSE IF floor % 2 = 0 THEN floor
                 ELSE floor + 1
  IN IF nearest > 255 THEN 255 ELSE IF nearest < 0 THEN 0 ELSE nearest

\* grayscale storing the integer part of gray, as a Uint8Array does.
grayscaleTruncating(data) ==
  [i \in DOMAIN data |->
     LET gray == Luminance(data[i]).thousandths \div 1000
     IN <<gray, gray, gray, data[i][4]>>]

\* grayscale: the loop over the pixels.
grayscale(data) ==
  [i \in DOMAIN data |->
     LET gray == ToUint8Clamped(Luminance(data[i]))
     IN <<gray, gray, gray, data[i][4]>>]

\* threshold: the loop over the pixels.
threshold(data, value) ==
  [i \in DOMAIN data |->
     LET gray == Luminance(data[i])
         binary == IF GreaterThan(gray, value) THEN 255 ELSE 0
     IN <<binary, binary, binary, data[i][4]>>]

FilterFrame == UNCHANGED <<engineVars, captureVars, pageVars>>

NoFilter == [op |-> "none", value |-> 0, input |-> <<>>]

NoError == <<>>

Grayscale ==
  /\ imageData' = grayscale(imageData)
  /\ lastFilter' = [op |-> "grayscale", value |-> 0, input |-> imageData]
  /\ filterError' = NoError
  /\ UNCHANGED imageWidth
  /\ FilterFrame

Threshold(value) ==
  /\ imageData' = threshold(imageData, value)
  /\ lastFilter' = [op |-> "threshold", value |-> value,
                    input |-> imageData]
  /\ filterError' = NoError
  /\ UNCHANGED imageWidth
  /\ FilterFrame

\* The filters over neighbourhoods see the pixels as rows of the canvas:
\* the pixel of column x and row y, both from 0, is data[y * width + x].
GridWidth == 3
GridHeight == 3

GridPixels == {<<200, 200, 200, 255>>, <<200, 100, 50, 128>>}

GridImages == [1..(GridWidth * GridHeight) -> GridPixels]

HeightOf(data, width) == IF width = 0 THEN 0 ELSE Len(data) \div width

PixelIndex(x, y, width) == y * width + x + 1

\* The bounds of the loops "for (y = half; y < height - half; y++)" and
\* "for (x = half; x < width - half; x++)".
InLoops(x, y, half, data, width) ==
  /\ half <= x /\ x < width - half
  /\ half <= y /\ y < HeightOf(data, width) - half

ColumnOf(i, width) == (i - 1) % width
RowOf(i, width) == (i - 1) \div width

\* The offsets kx, ky of a (2 * half + 1)-square kernel.
Offsets(half) == (-half..half) \X (-half..half)

\* this.threshold(128) of morphologicalOperation.
BinaryCutoff == 128
KernelSizes == {1, 3}

\* morphologicalOperation: newData starts as a copy of the pixels read
\* before the threshold; the loops write the pixels they visit.
morphologicalOperation(operation, kernelSize, data, width) ==
  LET halfKernel == kernelSize \div 2
      binaryData == threshold(data, BinaryCutoff)
      Near(i) == {binaryData[PixelIndex(ColumnOf(i, width) + k[1],
                                        RowOf(i, width) + k[2], width)][1] :
                    k \in Offsets(halfKernel)}
      result(i) == IF operation = "erosion"
                     THEN IF 0 \in Near(i) THEN 0 ELSE 255
                   ELSE IF 255 \in Near(i) THEN 255 ELSE 0
  IN [i \in DOMAIN data |->
        IF InLoops(ColumnOf(i, width), RowOf(i, width), halfKernel, data,
                   width)
          THEN <<result(i), result(i), result(i), data[i][4]>>
        ELSE data[i]]

Morphological(operation, kernelSize) ==
  /\ imageData' =
       morphologicalOperation(operation, kernelSize, imageData, imageWidth)
  /\ lastFilter' = [op |-> operation, value |-> kernelSize,
                    input |-> imageData]
  /\ filterError' = NoError
  /\ UNCHANGED imageWidth
  /\ FilterFrame

Erosion(kernelSize) == Morphological("erosion", kernelSize)

Dilation(kernelSize) == Morphological("dilation", kernelSize)

\* The kernels of sobelEdgeDetection, rows by ky + 1, columns by kx + 1.
SobelX == <<<<-1, 0, 1>>, <<-2, 0, 2>>, <<-1, 0, 1>>>>
SobelY == <<<<-1, -2, -1>>, <<0, 0, 0>>, <<1, 2, 1>>>>

RECURSIVE SumOver(_, _)
SumOver(term(_), set) ==
  IF set = {} THEN 0
  ELSE LET k == CHOOSE k \in set : TRUE
       IN term(k) + SumOver(term, set \ {k})

\* Math.min(255, Math.sqrt(n)) stored into the Uint8ClampedArray: the
\* integer nearest to the root (the root of an integer is never halfway
\* between two integers), 255 from 255 * 255 on.
MaxByte == 255
EdgeValue(n) ==
  IF n >= MaxByte * MaxByte THEN MaxByte
  ELSE CHOOSE r \in 0..MaxByte :
         /\ 4 * n < (2 * r + 1) * (2 * r + 1)
         /\ r = 0 \/ (2 * r - 1) * (2 * r - 1) < 4 * n

\* sobelEdgeDetection: newData starts as a copy of the pixels read before
\* the grayscale pre-pass; the loops write the pixels with the eight
\* neighbours.
sobelEdgeDetection(data, width) ==
  LET grayData == grayscale(data)
      pixel(i, k) == grayData[PixelIndex(ColumnOf(i, width) + k[1],
                                         RowOf(i, width) + k[2], width)][1]
      gx(i) == LET term(k) == pixel(i, k) * SobelX[k[2] + 2][k[1] + 2]
               IN SumOver(term, Offsets(1))
      gy(i) == LET term(k) == pixel(i, k) * SobelY[k[2] + 2][k[1] + 2]
               IN SumOver(term, Offsets(1))
      edgeValue(i) == EdgeValue(gx(i) * gx(i) + gy(i) * gy(i))
  IN [i \in DOMAIN data |->
        IF InLoops(ColumnOf(i, width), RowOf(i, width), 1, data, width)
          THEN <<edgeValue(i), edgeValue(i), edgeValue(i), data[i][4]>>
        ELSE data[i]]

\* histogramEqualization: cdf[g] counts the pixels of the grayscale
\* pre-pass no brighter than g, cdfMin is the first count above 0 and
\* cdfMax the number of pixels; a pixel of gray g gets
\* Math.round(((cdf[g] - cdfMin) / (cdfMax - cdfMin)) * 255), which for up
\* to 25 pixels is the exact quotient rounded half up, and 0 when the
\* image has one gray only (0 / 0 is NaN, stored as 0).
histogramEqualization(data) ==
  LET grayData == grayscale(data)
      cdf(g) == Cardinality({i \in DOMAIN grayData : grayData[i][1] <= g})
      cdfMin == cdf(CHOOSE g \in 0..MaxByte :
                      /\ cdf(g) > 0
                      /\ \A h \in 0..(g - 1) : cdf(h) = 0)
      cdfMax == cdf(MaxByte)
      newValue(g) ==
        IF cdfMax = cdfMin THEN 0
        ELSE (2 * MaxByte * (cdf(g) - cdfMin) + (cdfMax - cdfMin))
               \div (2 * (cdfMax - cdfMin))
  IN [i \in DOMAIN data |->
        LET value == newValue(grayData[i][1])
        IN <<value, value, value, data[i][4]>>]

SobelEdgeDetection ==
  /\ imageData' = sobelEdgeDetection(imageData, imageWidth)
  /\ lastFilter' = [op |-> "sobel", value |-> 0, input |-> imageData]
  /\ filterError' = NoError
  /\ UNCHANGED imageWidth
  /\ FilterFrame

HistogramEqualization ==
  /\ imageData' = histogramEqualization(imageData)
  /\ lastFilter' = [op |-> "histogram_equalization", value |-> 0,
                    input |-> imageData]
  /\ filterError' = NoError
  /\ UNCHANGED imageWidth
  /\ FilterFrame

\* invert: the loop over the pixels.
invert(data) ==
  [i \in DOMAIN data |->
     <<MaxByte - data[i][1], MaxByte - data[i][2], MaxByte - data[i][3],
       data[i][4]>>]

\* Math.max(0, Math.min(255, value)) for an integer value.
Clamp(value) ==
  IF value < 0 THEN 0 ELSE IF value > MaxByte THEN MaxByte ELSE value

\* adjustBrightnessContrast, for whole numbers of brightness and contrast.
MidGray == 128
adjustBrightnessContrast(data, brightness, contrast) ==
  LET channel(value) == Clamp((value - MidGray) * contrast + MidGray
                                + brightness)
  IN [i \in DOMAIN data |->
        <<channel(data[i][1]), channel(data[i][2]), channel(data[i][3]),
          data[i][4]>>]

\* values.sort((a, b) => a - b)[Math.floor(values.length / 2)] of the
\* values a neighbourhood holds at its positions.
Median(valueAt, positions) ==
  CHOOSE v \in {valueAt[p] : p \in positions} :
    /\ Cardinality({p \in positions : valueAt[p] < v})
         <= Cardinality(positions) \div 2
    /\ Cardinality({p \in positions : valueAt[p] <= v})
         > Cardinality(positions) \div 2

\* medianFilter: the median of each channel over the neighbourhood, for
\* the pixels the loops visit.
medianFilter(data, width, kernelSize) ==
  LET halfKernel == kernelSize \div 2
      near(i) == {PixelIndex(ColumnOf(i, width) + k[1],
                             RowOf(i, width) + k[2], width) :
                    k \in Offsets(halfKernel)}
      median(i, channel) ==
        Median([p \in near(i) |-> data[p][channel]], near(i))
  IN [i \in DOMAIN data |->
        IF InLoops(ColumnOf(i, width), RowOf(i, width), halfKernel, data,
                   width)
          THEN <<median(i, 1), median(i, 2), median(i, 3), data[i][4]>>
        ELSE data[i]]

\* The default kernel sizes of gaussianBlur and medianFilter.
BlurKernel == 5

\* gaussianBlur leaves alone the pixels its loops do not visit; the
\* weights it gives the others are not modelled, and the filter is applied
\* to images that are too small for the loops to visit a pixel.
TooSmallToBlur(data, width) ==
  \A i \in DOMAIN data :
    ~InLoops(ColumnOf(i, width), RowOf(i, width), BlurKernel \div 2, data,
             width)

gaussianBlur(data, width) == data

\* The operations of the filter pipeline and what each does to the pixels.
Operations ==
  {"grayscale", "invert", "brightness", "gaussian_blur", "median_filter",
   "sobel", "histogram_equalization", "threshold", "erosion", "dilation"}

Filtered(op, data, width, brightness, contrast) ==
  CASE op = "grayscale" -> grayscale(data)
    [] op = "invert" -> invert(data)
    [] op = "brightness" ->
         adjustBrightnessContrast(data, brightness, contrast)
    [] op = "gaussian_blur" -> gaussianBlur(data, width)
    [] op = "median_filter" -> medianFilter(data, width, BlurKernel)
    [] op = "sobel" -> sobelEdgeDetection(data, width)
    [] op = "histogram_equalization" -> histogramEqualization(data)
    [] op = "threshold" -> threshold(data, DefaultThreshold)
    [] op = "erosion" -> morphologicalOperation("erosion", 3, data, width)
    [] op = "dilation" -> morphologicalOperation("dilation", 3, data, width)

\* The catch clauses an exception thrown by getImageData passes on its way
\* out of an operation, innermost first: each throws a new Error whose
\* message is its description followed by the message it caught.
\* adjustBrightnessContrast and invert have no try.
CatchClauses(op) ==
  CASE op = "grayscale" -> <<"Failed to apply grayscale: ">>
    [] op = "invert" -> <<>>
    [] op = "brightness" -> <<>>
    [] op = "gaussian_blur" -> <<"Failed to apply convolution: ",
                                 "Failed to apply Gaussian blur: ">>
    [] op = "median_filter" -> <<"Failed to apply median filter: ">>
    [] op = "sobel" -> <<"Failed to apply Sobel edge detection: ">>
    [] op = "histogram_equalization" ->
         <<"Failed to apply histogram equalization: ">>
    [] op = "threshold" -> <<"Failed to apply threshold: ">>
    [] op = "erosion" -> <<"Failed to apply morphological operation: ",
                           "Failed to apply erosion: ">>
    [] op = "dilation" -> <<"Failed to apply morphological operation: ",
                            "Failed to apply dilation: ">>

\* The message of the error that leaves the operation, as the strings it
\* is concatenated from.
RECURSIVE Rethrown(_, _)
Rethrown(clauses, message) ==
  IF clauses = <<>> THEN message
  ELSE Rethrown(Tail(clauses), <<Head(clauses)>> \o message)

OriginalMessage == "The canvas has been tainted by cross-origin data."

\* One operation of the pipeline; throws says whether its first
\* getImageData throws.
Operation(op, brightness, contrast, throws) ==
  /\ op = "gaussian_blur" => TooSmallToBlur(imageData, imageWidth)
  /\ lastFilter' = [op |-> op, value |-> 0, input |-> imageData]
  /\ IF throws
       THEN /\ filterError' = Rethrown(CatchClauses(op), <<OriginalMessage>>)
            /\ UNCHANGED imageData
     ELSE /\ filterError' = NoError
          /\ imageData' =
               Filtered(op, imageData, imageWidth, brightness, contrast)
  /\ UNCHANGED imageWidth
  /\ FilterFrame

\* ------------------------------------------------ image-processing page
\* canvas.toDataURL('image/png'): the PNG of the canvas, which keeps the
\* width and every pixel of an opaque image; loadImage draws the decoded
\* image onto the canvas, which takes its width.
toDataURL(data, width) == [mime |-> "image/png", width |-> width,
                           pixels |-> data]

Decoded(src) == src.pixels

\* The page's state for no image (null) and the observer before any call.
NoSource == [mime |-> "none", width |-> 0, pixels |-> <<>>]
NoImage == [src |-> NoSource, width |-> 0]
NoLog == [base |-> NoImage, length |-> 0, tip |-> FALSE, started |-> <<>>,
          passed |-> <<>>]

\* The filters of availableFilters the page applies here, and the
\* parameters their inputs edit.
PageFilters == {"brightness", "threshold"}

ParamNames(filterId) ==
  IF filterId = "brightness" THEN {"brightness", "contrast"} ELSE {"value"}

\* The numbers the user types into a parameter's input.
UserValues(name) ==
  CASE name = "brightness" -> {0}
    [] name = "contrast" -> {2}
    [] name = "value" -> {0}

\* params.name || default: the default when the parameter was never set and
\* when the value set is falsy, which for a number is 0.
OrDefault(params, name, default) ==
  IF name \in DOMAIN params /\ params[name] # 0 THEN params[name]
  ELSE default

DefaultBrightness == 0
DefaultContrast == 1

\* The arguments the filter's apply passes to the processor.
Arguments(filterId, params) ==
  IF filterId = "brightness"
    THEN [brightness |-> OrDefault(params, "brightness", DefaultBrightness),
          contrast |-> OrDefault(params, "contrast", DefaultContrast)]
  ELSE [value |-> OrDefault(params, "value", DefaultThreshold)]

\* filter.apply(processor, params) on the pixels of the processor's canvas.
PageApply(filterId, params, data) ==
  LET args == Arguments(filterId, params)
  IN IF filterId = "brightness"
       THEN adjustBrightnessContrast(data, args.brightness, args.contrast)
     ELSE threshold(data, args.value)

\* filterParams[filterId] || {}
ParamsOf(params, filterId) ==
  IF filterId \in DOMAIN params THEN params[filterId] ELSE <<>>

\* addToHistory of a render whose history and pointer are given.
addToHistory(history, index, image) ==
  LET newHistory == Append(SubSeq(history, 1, index + 1), image)
  IN [imageHistory |-> newHistory, imageHistoryIndex |-> Len(newHistory) - 1]

PageFrame == UNCHANGED <<engineVars, captureVars>>

MaxPending == 2
MaxPageHistory == 2

\* updateFilterParams(filterId, {[name]: value})
updateFilterParams(filterId, name, value) ==
  /\ filterParams' =
       (filterId :> ((name :> value) @@ ParamsOf(filterParams, filterId)))
         @@ filterParams
  /\ UNCHANGED <<processedImage, imageHistory, imageHistoryIndex,
                 pendingFilters, pageLog>>
  /\ UNCHANGED filterVars
  /\ PageFrame

\* applyFilter up to its await: the call holds the state of the render it
\* was started in and waits for loadImage(processedImage.src).
applyFilter(filterId) ==
  /\ processedImage # NoImage
  /\ Len(pendingFilters) < MaxPending
  /\ imageHistoryIndex + 2 <= MaxPageHistory
  /\ pendingFilters' =
       Append(pendingFilters,
              [filterId |-> filterId, processedImage |-> processedImage,
               imageHistory |-> imageHistory,
               imageHistoryIndex |-> imageHistoryIndex,
               params |-> ParamsOf(filterParams, filterId)])
  /\ pageLog' =
       LET call == [filterId |-> filterId,
                    params |-> ParamsOf(filterParams, filterId)]
       IN IF pendingFilters = <<>>
            THEN [base |-> processedImage, length |-> Len(imageHistory),
                  tip |-> imageHistoryIndex = Len(imageHistory) - 1,
                  started |-> <<call>>, passed |-> pageLog.passed]
          ELSE [pageLog EXCEPT
                  !.started = IF Len(@) <= MaxPending THEN Append(@, call)
                              ELSE @]
  /\ UNCHANGED <<processedImage, imageHistory, imageHistoryIndex,
                 filterParams>>
  /\ UNCHANGED filterVars
  /\ PageFrame

\* img.onload of the k-th waiting call and the rest of its applyFilter: the
\* image is drawn on the processor's canvas, the filter is applied, and the
\* result is stored through the setters and the addToHistory of the call's
\* render.
ImageLoaded(k) ==
  /\ k \in DOMAIN pendingFilters
  /\ LET call == pendingFilters[k]
         loaded == Decoded(call.processedImage.src)
         result == PageApply(call.filterId, call.params, loaded)
         newProcessedImage ==
           [call.processedImage EXCEPT
              !.src = toDataURL(result, call.processedImage.src.width)]
         added == addToHistory(call.imageHistory, call.imageHistoryIndex,
                               newProcessedImage)
     IN /\ imageData' = result
        /\ imageWidth' = call.processedImage.src.width
        /\ lastFilter' = [op |-> call.filterId, value |-> 0,
                          input |-> loaded]
        /\ filterError' = NoError
        /\ processedImage' = newProcessedImage
        /\ imageHistory' = added.imageHistory
        /\ imageHistoryIndex' = added.imageHistoryIndex
        /\ pageLog' = [pageLog EXCEPT
                         !.passed = Arguments(call.filterId, call.params)]
  /\ pendingFilters' =
       [i \in 1..(Len(pendingFilters) - 1) |->
          IF i < k THEN pendingFilters[i] ELSE pendingFilters[i + 1]]
  /\ UNCHANGED filterParams
  /\ PageFrame

\* The page's undo and redo.
PageUndo ==
  /\ imageHistoryIndex > 0
  /\ imageHistoryIndex' = imageHistoryIndex - 1
  /\ processedImage' = imageHistory[imageHistoryIndex]
  /\ pageLog' = [pageLog EXCEPT !.tip = FALSE]
  /\ UNCHANGED <<imageHistory, filterParams, pendingFilters>>
  /\ UNCHANGED filterVars
  /\ PageFrame

PageRedo ==
  /\ imageHistoryIndex < Len(imageHistory) - 1
  /\ imageHistoryIndex' = imageHistoryIndex + 1
  /\ processedImage' = imageHistory[imageHistoryIndex + 2]
  /\ pageLog' = [pageLog EXCEPT !.tip = FALSE]
  /\ UNCHANGED <<imageHistory, filterParams, pendingFilters>>
  /\ UNCHANGED filterVars
  /\ PageFrame

\* ------------------------------------------------------ specification
\* The closures of the wrapper's first render: the history is still empty
\* (the "initialize history" effect runs after it).
FirstEnv(initialAnnotations) ==
  [annotations |-> initialAnnotations, annotationHistory |-> <<>>,
   historyIndex |-> -1]

\* The state after the first render and its effects, for a wrapper given
\* initialAnnotations.
InitWith(initialAnnotations) ==
  /\ annotations = initialAnnotations
  /\ annotationHistory =
       (IF Len(initialAnnotations) > 0 THEN <<initialAnnotations>> ELSE <<>>)
  /\ historyIndex = (IF Len(initialAnnotations) > 0 THEN 0 ELSE -1)
  /\ activeTool = "null"
  /\ currentStyles = DefaultStyles
  /\ isMinimized = FALSE
  /\ isDrawing = FALSE
  /\ drawingPoints = <<>>
  /\ dimensionStart = NoPoint
  /\ currentAnnotation = NoAnnotation
  /\ canvasObjects = <<>>
  /\ mdMemo = [activeTool |-> "null", dimensionStart |-> NoPoint,
               styles |-> DefaultStyles, add |-> FirstEnv(initialAnnotations)]
  /\ mmMemo = [isDrawing |-> FALSE, activeTool |-> "null",
               drawingPoints |-> <<>>, currentAnnotation |-> NoAnnotation,
               styles |-> DefaultStyles]
  /\ muMemo = [activeTool |-> "null", drawingPoints |-> <<>>,
               styles |-> DefaultStyles, add |-> FirstEnv(initialAnnotations)]
  /\ reg = [md |-> mdMemo, mm |-> mmMemo, mu |-> muMemo,
            om |-> [currentAnnotation |-> NoAnnotation,
                    add |-> FirstEnv(initialAnnotations)]]
  /\ showTextInput = FALSE
  /\ textInput = ""
  /\ clock = 1
  /\ nextObj = 1
  /\ crashed = FALSE
  /\ scenario = [adds |-> 0, undos |-> 0, ok |-> initialAnnotations = <<>>]
  /\ undoFrom = NoUndo
  /\ idlePointer = FALSE
  /\ pendingClick = NoPoint
  /\ visibleAnnotations =
       {initialAnnotations[i].id : i \in DOMAIN initialAnnotations}
  /\ shapeState = <<>>
  /\ pressLog = [point \in Points |-> {}]

\* The manager after its construction, for the entries storage may hold.
CaptureInit(entries) ==
  /\ storage \in entries
  /\ captures = loadCaptures(storage, FALSE)
  /\ captureError = FALSE
  /\ captureClock = 1
  /\ lastCapture = CaptureOp("load", TRUE, FALSE)

\* The processor with one of the images loaded into its canvas.
FilterInit(images) ==
  /\ imageData \in images
  /\ imageWidth = Len(imageData)
  /\ lastFilter = NoFilter
  /\ filterError = NoError

\* The processor with one of the images, of rows of the given width, loaded
\* into its canvas.
GridInit(images, width) ==
  /\ imageData \in images
  /\ imageWidth = width
  /\ lastFilter = NoFilter
  /\ filterError = NoError

\* The image-processing page before an image is dropped on it.

PageIdle ==
  /\ processedImage = NoImage
  /\ imageHistory = <<>>
  /\ imageHistoryIndex = -1
  /\ filterParams = <<>>
  /\ pendingFilters = <<>>
  /\ pageLog = NoLog

Init ==
  /\ \E initialAnnotations \in {<<>>, <<SampleAnnotation>>} :
       InitWith(initialAnnotations)
  /\ CaptureInit({NoEntry})
  /\ FilterInit({<<>>})
  /\ PageIdle

\* The steps of the engine; track says whether the observers follow the
\* run.  Tool selection, for the tools given:
ToolStep(tools, track) ==
  \E toolId \in tools : SelectTool(toolId) /\ Track(track, NoteOther)

\* Pointer gestures on the canvas, for the positions and the time
\* increments given.
GestureStep(points, dts, track) ==
  \/ \E point \in points, dt \in dts :
       MouseDown(point, dt) /\ Track(track, NotePress(point))
  \/ \E point \in points :
       MouseMove(point) /\ Track(track, NoteGesture)
  \/ \E dt \in dts :
       MouseUp(dt) /\ Track(track, NoteGesture)

\* The user moves or resizes a shape of the canvas.
ModifyStep(track) ==
  \E target \in Range(canvasObjects) :
    ObjectModified(target) /\ Track(track, NoteGesture)

\* The manager's delete and the Undo and Redo buttons.
StoreStep(track) ==
  \/ \E i \in 1..Len(annotations) :
       ManagerDelete(annotations[i].id) /\ Track(track, NoteStoreChange)
  \/ Undo /\ Track(track, NoteUndo)
  \/ Redo /\ Track(track, NoteRedo)

\* The canvas is unmounted, mounted or created again.
LifeCycleStep(track) ==
  \/ ToggleMinimize /\ Track(track, NoteRemount)
  \/ ChangeImage /\ Track(track, NoteOther)

Step(tools, points, dts, track) ==
  \/ ToolStep(tools, track)
  \/ GestureStep(points, dts, track)
  \/ ModifyStep(track)
  \/ StoreStep(track)
  \/ LifeCycleStep(track)

\* The steps of the text modal.
TextStep ==
  \/ \E text \in TextInputs : ChangeText(text) /\ Track(FALSE, NoteOther)
  \/ TextSubmit /\ Track(FALSE, NoteOther)
  \/ TextCancel /\ Track(FALSE, NoteOther)

\* The leader tool at one position, records created one millisecond apart,
\* observers tracking: the store and its history.
NextHistory == Step({"leader"}, {<<0, 0>>}, {1}, TRUE)

SpecHistory == Init /\ [][NextHistory]_vars

Next == Step({"leader"}, {<<0, 0>>}, {0, 1}, FALSE)

Spec == Init /\ [][Next]_vars

\* The linear dimension tool at two positions: tool selection, pointer
\* gestures and the life cycle of the canvas.
NextDimension ==
  \/ ToolStep({"linear"}, FALSE)
  \/ GestureStep(Points, {1}, FALSE)
  \/ LifeCycleStep(FALSE)

SpecDimension == Init /\ [][NextDimension]_vars

\* The revision-cloud tool at one position, with the store's buttons.
NextCloud ==
  \/ ToolStep({"revision-cloud"}, FALSE)
  \/ GestureStep({<<0, 0>>}, {1}, FALSE)
  \/ StoreStep(FALSE)
  \/ LifeCycleStep(FALSE)

SpecCloud == Init /\ [][NextCloud]_vars

\* The single-text tool with its modal, with the store's buttons.
NextText ==
  \/ ToolStep({"single-text"}, FALSE)
  \/ GestureStep({<<0, 0>>}, {1}, FALSE)
  \/ StoreStep(FALSE)
  \/ LifeCycleStep(FALSE)
  \/ TextStep

SpecText == Init /\ [][NextText]_vars

\* The steps of the style panel.
StyleStep ==
  \E lineWidth \in LineWidths : StyleChange(lineWidth) /\ Track(FALSE, NoteOther)

\* The leader tool with the style panel.
NextStyle ==
  \/ ToolStep({"leader"}, FALSE)
  \/ GestureStep({<<0, 0>>}, {1}, FALSE)
  \/ ModifyStep(FALSE)
  \/ StoreStep(FALSE)
  \/ LifeCycleStep(FALSE)
  \/ StyleStep

SpecStyle == Init /\ [][NextStyle]_vars

\* The user removes a shape of the canvas.
RemoveStep ==
  \E target \in Range(canvasObjects) :
    ObjectRemoved(target) /\ Track(FALSE, NoteOther)

\* The leader tool with removal of shapes.
NextRemove ==
  \/ ToolStep({"leader"}, FALSE)
  \/ GestureStep({<<0, 0>>}, {1}, FALSE)
  \/ LifeCycleStep(FALSE)
  \/ RemoveStep

SpecRemove == Init /\ [][NextRemove]_vars

\* The manager's delete-all button.
DeleteAllStep == ManagerDeleteAll /\ Track(FALSE, NoteOther)

\* The leader tool with the manager's delete-all.
NextDeleteAll == Step({"leader"}, {<<0, 0>>}, {1}, FALSE) \/ DeleteAllStep

SpecDeleteAll == Init /\ [][NextDeleteAll]_vars

\* The linear dimension tool at two positions, observers tracking.
NextDistance ==
  \/ ToolStep({"linear"}, TRUE)
  \/ GestureStep(Points, {1}, TRUE)
  \/ LifeCycleStep(TRUE)

SpecDistance == Init /\ [][NextDistance]_vars

\* The capture manager alone: captures taken, deleted and cleared and the
\* page reloaded, with the given magnifications and id suffixes; faults
\* says whether storage may throw.
CaptureStep(magnifications, suffixes, faults) ==
  \/ \E dt \in {0, 1}, suffix \in suffixes,
        magnification \in magnifications, writeThrows \in faults :
       AddCapture(dt, suffix, magnification, writeThrows)
  \/ \E id \in CaptureIds, writeThrows \in faults :
       DeleteCapture(id, writeThrows)
  \/ \E writeThrows \in faults : ClearAllCaptures(writeThrows)
  \/ \E readThrows \in faults : Construct(readThrows)

InitCapture ==
  /\ InitWith(<<>>)
  /\ CaptureInit({NoEntry, CorruptEntry})
  /\ FilterInit({<<>>})
  /\ PageIdle

NextCapture == CaptureStep(Magnifications, Suffixes, {FALSE})

SpecCapture == InitCapture /\ [][NextCapture]_vars

NextCaptureFaults == CaptureStep({"100"}, {"a"}, BOOLEAN)

SpecCaptureFaults == InitCapture /\ [][NextCaptureFaults]_vars

\* The image processor alone, on each of the images.
FilterStep ==
  \/ Grayscale
  \/ \E value \in ThresholdValues : Threshold(value)

InitFilter ==
  /\ InitWith(<<>>)
  /\ CaptureInit({NoEntry})
  /\ FilterInit(Images)
  /\ PageIdle

NextFilter == FilterStep

SpecFilter == InitFilter /\ [][NextFilter]_vars

\* Erosion and dilation on each of the grid images.
InitGrid ==
  /\ InitWith(<<>>)
  /\ CaptureInit({NoEntry})
  /\ GridInit(GridImages, GridWidth)
  /\ PageIdle

NextMorphology ==
  \/ \E kernelSize \in KernelSizes : Erosion(kernelSize)
  \/ \E kernelSize \in KernelSizes : Dilation(kernelSize)

SpecMorphology == InitGrid /\ [][NextMorphology]_vars

\* Edge detection and histogram equalization on each of the grid images.
NextEdges == SobelEdgeDetection \/ HistogramEqualization

SpecEdges == InitGrid /\ [][NextEdges]_vars

\* The pipeline's operations, each with and without an exception, on rows
\* of gray pixels.
GrayPixels == {<<200, 200, 200, 255>>, <<50, 50, 50, 255>>}

GrayImages == UNION {[1..n -> GrayPixels] : n \in 1..MaxImage}

InitFaults ==
  /\ InitWith(<<>>)
  /\ CaptureInit({NoEntry})
  /\ FilterInit(GrayImages)
  /\ PageIdle

NextFaults ==
  \E op \in Operations, throws \in BOOLEAN : Operation(op, 50, 2, throws)

SpecFaults == InitFaults /\ [][NextFaults]_vars

\* The history with the shapes followed: records created with the leader
\* tool, their shapes dragged, the line width changed, records deleted,
\* Undo and Redo, the image changed.
NextCopies ==
  \/ SelectTool("leader") /\ ShapeTrack(NoShape, 0)
  \/ nextObj < MaxTracked /\ MouseDown(<<0, 0>>, 1) /\ ShapeTrack(NoShape, 0)
  \/ \E target \in Range(AllObjects(annotations)), left \in Positions :
       DragShape(target, left)
  \/ \E lineWidth \in LineWidths :
       StyleChange(lineWidth) /\ ShapeTrack(NoShape, 0)
  \/ \E i \in DOMAIN annotations :
       ManagerDelete(annotations[i].id) /\ ShapeTrack(NoShape, 0)
  \/ Undo /\ ShapeTrack(NoShape, 0)
  \/ Redo /\ ShapeTrack(NoShape, 0)
  \/ ChangeImage /\ ShapeTrack(NoShape, 0)

SpecCopies == Init /\ [][NextCopies]_vars

\* Two tools of two clicks, selected in any order between the clicks.
TwoClickTools == {"linear", "centerline"}

NextToolChange ==
  \/ \E toolId \in TwoClickTools : SelectTool(toolId) /\ PressTrack(pressLog)
  \/ \E point \in Points :
       /\ nextObj < MaxTracked
       /\ MouseDown(point, 1)
       /\ PressTrack(Pressed(point))
  \/ ChangeImage /\ PressTrack(pressLog)
  \/ ToggleMinimize /\ PressTrack(pressLog)

SpecToolChange == Init /\ [][NextToolChange]_vars

\* The revision-cloud tool next to the leader tool, at one position: a
\* record is committed with one tool and a cloud is drawn after it.
NextCloudAfter ==
  \/ ToolStep({"revision-cloud", "leader"}, FALSE)
  \/ /\ nextObj < MaxTracked
     /\ MouseDown(<<0, 0>>, 1)
     /\ Track(FALSE, NoteOther)
  \/ MouseMove(<<0, 0>>) /\ Track(FALSE, NoteOther)
  \/ MouseUp(1) /\ Track(FALSE, NoteOther)
  \/ LifeCycleStep(FALSE)

SpecCloudAfter == Init /\ [][NextCloudAfter]_vars

\* The manager's visibility controls next to the leader tool, the store's
\* buttons and direct manipulation.
NextVisibility ==
  \/ ToolStep({"leader"}, FALSE)
  \/ /\ nextObj < MaxTracked
     /\ MouseDown(<<0, 0>>, 1)
     /\ Track(FALSE, NoteOther)
  \/ ModifyStep(FALSE)
  \/ StoreStep(FALSE)
  \/ ChangeImage /\ Track(FALSE, NoteOther)
  \/ \E annotationId \in VisibleIds(annotations) :
       toggleAnnotationVisibility(annotationId)
  \/ \E visible \in BOOLEAN : toggleAllAnnotations(visible)

SpecVisibility == Init /\ [][NextVisibility]_vars

\* The image-processing page after an image of two gray pixels was dropped
\* on it: it is the processed image and the only entry of the history.
DroppedPixels == <<(<<200, 200, 200, 255>>), (<<100, 100, 100, 255>>)>>

DroppedImage == [src |-> toDataURL(DroppedPixels, Len(DroppedPixels)),
                 width |-> Len(DroppedPixels)]

InitPage ==
  /\ InitWith(<<>>)
  /\ CaptureInit({NoEntry})
  /\ FilterInit({DroppedPixels})
  /\ processedImage = DroppedImage
  /\ imageHistory = <<DroppedImage>>
  /\ imageHistoryIndex = 0
  /\ filterParams = <<>>
  /\ pendingFilters = <<>>
  /\ pageLog = NoLog

NextPage ==
  \/ \E filterId \in PageFilters :
       \E name \in ParamNames(filterId) :
         \E value \in UserValues(name) :
           updateFilterParams(filterId, name, value)
  \/ \E filterId \in PageFilters : applyFilter(filterId)
  \/ \E k \in 1..MaxPending : ImageLoaded(k)
  \/ PageUndo
  \/ PageRedo

SpecPage == InitPage /\ [][NextPage]_vars

\* ------------------------------------------------------------- claims
\* C1: from an empty store with an empty history, N >= 1 record creations
\* followed by N presses of Undo leave the annotation list empty.
C1_AddsThenUndosLeaveEmpty ==
  (scenario.ok /\ scenario.adds >= 1 /\ scenario.undos = scenario.adds)
    => annotations = <<>>

\* C2: with a non-empty history, whatever the pointer, Undo immediately
\* followed by Redo leaves the annotation list as it was before the Undo.
C2_UndoRedoIdentity ==
  undoFrom.phase = "redone" => annotations = undoFrom.annotations

\* C2 as amended: the same, for an Undo pressed with the pointer above 0
\* (at pointer 0 Undo does nothing and the Redo that follows moves on to
\* the next entry when there is one).
C2_UndoRedoIdentityAbovePointerZero ==
  (undoFrom.phase = "redone" /\ undoFrom.index > 0)
    => annotations = undoFrom.annotations

\* An Undo from pointer 2 that changed the list, followed by a Redo.
C2_Witness ==
  /\ undoFrom.phase = "redone"
  /\ undoFrom.index = 2
  /\ historyIndex = 2
  /\ annotationHistory[2] # annotationHistory[3]

\* A step in which the store ran handleAnnotationAdd, Update or Delete: a
\* record was created (Date.now() advanced) or the history changed.
StoreHandlerStep == clock' # clock \/ annotationHistory' # annotationHistory

\* C3: every add, update or delete performed with the pointer at p drops
\* the history entries after p, appends one snapshot equal to the new
\* annotation list and moves the pointer to the new last entry (so that a
\* Redo right after it has nothing to restore).
C3_PushPrunesRedoBranch ==
  [][StoreHandlerStep =>
       /\ annotationHistory' =
            Append(SubSeq(annotationHistory, 1, historyIndex + 1),
                   annotations')
       /\ historyIndex' = Len(annotationHistory') - 1]_vars

\* C4: Undo with the pointer p > 0 moves the pointer to p - 1 and sets the
\* annotation list to entry p - 1, changing no history entry; Undo with the
\* pointer at 0 or with an empty history changes none of the three.
C4_UndoEffect ==
  [][Undo =>
       IF historyIndex > 0
         THEN /\ historyIndex' = historyIndex - 1
              /\ annotations' = annotationHistory[historyIndex]
              /\ annotationHistory' = annotationHistory
       ELSE UNCHANGED <<annotations, annotationHistory, historyIndex>>]_vars

\* An Undo from pointer 1 has just replaced a two-record list by the
\* one-record entry before it.
C4_Witness ==
  /\ undoFrom.phase = "undone"
  /\ undoFrom.index = 1
  /\ historyIndex = 0
  /\ Len(undoFrom.annotations) = 2
  /\ annotations = annotationHistory[1]
  /\ Len(annotations) = 1

\* The identities of the shapes a list of records owns.
OwnedShapes(anns) == {o[2] : o \in Range(AllObjects(anns))}

\* C5: in every state the shapes on the canvas are exactly the render
\* shapes of the records in the store: every canvas shape belongs to a
\* record of the store, no shape is on the canvas twice, and every shape of
\* every record is on the canvas.
C5_CanvasMatchesStore ==
  Mounted =>
    /\ \A i \in 1..Len(canvasObjects) :
         canvasObjects[i][2] \in OwnedShapes(annotations)
    /\ \A i, j \in 1..Len(canvasObjects) :
         canvasObjects[i][2] = canvasObjects[j][2] => i = j
    /\ \A uid \in OwnedShapes(annotations) :
         \E i \in 1..Len(canvasObjects) : canvasObjects[i][2] = uid

\* C6: after the manager deleted a record, the record is absent from the
\* store and none of its render shapes is on the canvas.
C6_DeleteRemovesRecordAndShapes ==
  [][\A k \in 1..Len(annotations) :
       ManagerDelete(annotations[k].id) =>
         /\ \A i \in 1..Len(annotations') :
              annotations'[i].id # annotations[k].id
         /\ \A i \in 1..Len(canvasObjects') :
              canvasObjects'[i][2] \notin OwnedShapes(<<annotations[k]>>)]_vars

\* C7: with a dimension tool active, a press with no pending start creates
\* no record and stores the point as pending start; a press with a pending
\* start appends one dimension record from the pending start to the point,
\* pushes one history entry and clears the pending start.
C7_DimensionTwoClicks ==
  [][\A point \in Points :
       (MouseDown(point, 1) /\ activeTool \in DimensionTools) =>
         IF dimensionStart = NoPoint
           THEN /\ annotations' = annotations
                /\ dimensionStart' = point
         ELSE /\ Len(annotations') = Len(annotations) + 1
              /\ SubSeq(annotations', 1, Len(annotations)) = annotations
              /\ Last(annotations').type = "dimension"
              /\ Last(annotations').data.start = dimensionStart
              /\ Last(annotations').data.end = point
              /\ Len(annotationHistory') = Len(annotationHistory) + 1
              /\ dimensionStart' = NoPoint]_vars

\* C8: with the revision-cloud tool active, the release of a gesture that
\* collected fewer than 3 points adds no record, and the release of one
\* that collected n >= 3 points adds exactly one revision-cloud record
\* holding the n points in order.
C8_CloudNeedsThreePoints ==
  [][(MouseUp(1) /\ activeTool = "revision-cloud" /\ isDrawing) =>
       IF Len(drawingPoints) < 3
         THEN annotations' = annotations
       ELSE /\ Len(annotations') = Len(annotations) + 1
            /\ SubSeq(annotations', 1, Len(annotations)) = annotations
            /\ Last(annotations').type = "revision-cloud"
            /\ Last(annotations').data.points = drawingPoints]_vars

\* C9: with a text tool selected, submitting non-blank text appends exactly
\* one text record carrying that text to the store and pushes one history
\* entry.
C9_TextSubmitAddsRecord ==
  [][(TextSubmit /\ IsTextTool(activeTool) /\ Trim(textInput) # "") =>
       /\ Len(annotations') = Len(annotations) + 1
       /\ SubSeq(annotations', 1, Len(annotations)) = annotations
       /\ Last(annotations').type = "text"
       /\ Last(annotations').data.content = textInput
       /\ Len(annotationHistory') = Len(annotationHistory) + 1]_vars

\* C10: no two records of the store share an id, also when records are
\* created while Date.now() has not advanced.
C10_IdsUnique ==
  \A i, j \in 1..Len(annotations) :
    annotations[i].id = annotations[j].id => i = j

\* C11: the styles stored in a record are the values of currentStyles at
\* the moment the record was created, and a later style change alters the
\* stored styles of no record.
C11_StyleSnapshot ==
  [][/\ clock' # clock => Last(annotations').styles = currentStyles
     /\ (\E lineWidth \in LineWidths : StyleChange(lineWidth))
          => annotations' = annotations]_vars

\* A pointer event of any kind.
PointerEvent ==
  \/ \E point \in Points, dt \in {0, 1} : MouseDown(point, dt)
  \/ \E point \in Points : MouseMove(point)
  \/ \E dt \in {0, 1} : MouseUp(dt)

\* C12: while no tool is active, a pointer press, move or release adds no
\* record, adds or removes no shape of the canvas, and leaves the pending
\* start point, the drawing points and the drawing flag as they are.
C12_NoToolNoEffect ==
  [][(activeTool = "null" /\ PointerEvent) =>
       UNCHANGED <<annotations, annotationHistory, canvasObjects,
                   dimensionStart, drawingPoints, isDrawing>>]_vars

\* A pointer event has just been delivered to a mounted canvas that shows
\* a stored record, with no tool active.
C12_Witness ==
  /\ idlePointer
  /\ activeTool = "null"
  /\ Mounted
  /\ annotations = <<SampleAnnotation>>

\* C13: when a shape that belongs to a record of the store is removed from
\* the canvas, the record owning the shape, and only that record, is
\* deleted from the store, whichever record of the store it is.
C13_RemovedShapeDeletesOwner ==
  [][\A target \in Range(canvasObjects) :
       (/\ ObjectRemoved(target)
        /\ \E k \in 1..Len(annotations) :
             target \in Range(annotations[k].objects))
         => annotations' =
              SelectSeq(annotations,
                        LAMBDA ann : target \notin Range(ann.objects))]_vars

\* C14: after the manager's delete-all, confirmed while the store holds
\* k >= 1 records, the store is empty and the latest history entry is the
\* empty list.
C14_DeleteAllEmptiesStore ==
  [][(ManagerDeleteAll /\ Len(annotations) >= 1) =>
       /\ annotations' = <<>>
       /\ Last(annotationHistory') = <<>>]_vars

\* A dimension record has just been created.
DimensionCommitted ==
  /\ clock' # clock
  /\ annotations' # <<>>
  /\ Last(annotations').id = clock'
  /\ Last(annotations').type = "dimension"

\* C15: the distance stored in a committed dimension is the Euclidean
\* distance from its start to its end (d >= 0 and d * d the sum of the
\* squared differences; 5.00 from (0,0) to (3,4)), and a second click on
\* the point of the first one still commits a record, with distance 0.
C15_DimensionDistance ==
  [][/\ DimensionCommitted =>
          LET data == Last(annotations').data
          IN /\ data.distance >= 0
             /\ data.distance * data.distance =
                  DistanceScale * DistanceScale *
                    (Square(data.end[1] - data.start[1])
                       + Square(data.end[2] - data.start[2]))
     /\ \A point \in Points :
          (/\ MouseDown(point, 1)
           /\ activeTool \in DimensionTools
           /\ pendingClick = point)
            => /\ DimensionCommitted
               /\ Last(annotations').data.distance = 0]_vars


\* The captures of a list from the newest to the oldest.
NewestFirst(list) ==
  \A i, j \in DOMAIN list : i < j => list[i].timestamp >= list[j].timestamp

\* list without its element at index k.
Without(list, k) ==
  [i \in 1..(Len(list) - 1) |-> IF i < k THEN list[i] ELSE list[i + 1]]

\* C16: after any sequence of addCapture, deleteCapture and
\* clearAllCaptures the list is newest-first: addCapture puts the new
\* capture at index 0 in front of the others, deleteCapture takes out one
\* capture, which has the given id, and keeps the others in their order
\* (and changes nothing when no capture has the id).
C16_NewestFirstList ==
  [][/\ NewestFirst(captures')
     /\ \A dt \in {0, 1}, suffix \in Suffixes,
           magnification \in Magnifications, writeThrows \in BOOLEAN :
          AddCapture(dt, suffix, magnification, writeThrows)
            => /\ captures'[1].id = <<captureClock + dt, suffix>>
               /\ Tail(captures') = captures
     /\ \A id \in CaptureIds, writeThrows \in BOOLEAN :
          DeleteCapture(id, writeThrows)
            => IF \E k \in DOMAIN captures : captures[k].id = id
                 THEN \E k \in DOMAIN captures :
                        /\ captures[k].id = id
                        /\ captures' = Without(captures, k)
               ELSE captures' = captures]_vars

\* A capture deleted from a list of three taken at different times.
C16_Witness ==
  /\ lastCapture.op = "delete"
  /\ lastCapture.returned
  /\ Len(captures) = 2
  /\ captures[1].timestamp > captures[2].timestamp

\* The manager has just changed its list and written it.
ListWritten ==
  /\ \/ lastCapture.op \in {"add", "clear"}
     \/ lastCapture.op = "delete" /\ lastCapture.returned
  /\ ~lastCapture.failed

\* C17: with storage that does not fail, after every addCapture, every
\* deleteCapture that returns true and every clearAllCaptures the entry
\* in storage is the serialization of the whole in-memory list, and a
\* manager constructed then loads exactly the in-memory list.
C17_PersistedListLoadsBack ==
  ListWritten => /\ storage = Stringify(captures)
                 /\ loadCaptures(storage, FALSE) = captures

\* C18: when reading storage throws or gives text that does not parse,
\* loadCaptures ends with an empty list and raises nothing; when writing
\* storage throws, addCapture, deleteCapture and clearAllCaptures raise
\* nothing and the in-memory list has the capture added, the capture
\* removed, or no capture.
C18_StorageFaultsSwallowed ==
  [][/\ ~captureError'
     /\ \A readThrows \in BOOLEAN :
          (Construct(readThrows) /\ (readThrows \/ storage = CorruptEntry))
            => captures' = <<>>
     /\ \A dt \in {0, 1}, suffix \in Suffixes,
           magnification \in Magnifications :
          AddCapture(dt, suffix, magnification, TRUE)
            => /\ Len(captures') = Len(captures) + 1
               /\ captures'[1].id = <<captureClock + dt, suffix>>
     /\ \A id \in CaptureIds :
          (DeleteCapture(id, TRUE) /\ \E k \in DOMAIN captures :
                                        captures[k].id = id)
            => /\ lastCapture'.returned
               /\ Len(captures') = Len(captures) - 1
     /\ ClearAllCaptures(TRUE) => captures' = <<>>]_vars

\* A capture added while storage, holding text that did not parse, throws
\* on the write.
C18_Witness ==
  /\ storage = CorruptEntry
  /\ lastCapture = CaptureOp("add", TRUE, TRUE)
  /\ Len(captures) = 1
  /\ ~captureError

\* The luminance 0.299R + 0.587G + 0.114B of a pixel, in thousandths.
ExactLuminance(pixel) == 299 * pixel[1] + 587 * pixel[2] + 114 * pixel[3]

\* The pixel the threshold at value is to make of a pixel.
Binarized(pixel, value) ==
  IF ExactLuminance(pixel) > 1000 * value
    THEN <<255, 255, 255, pixel[4]>>
  ELSE <<0, 0, 0, pixel[4]>>

\* C19: after threshold(v) every pixel has R = G = B = 255 when its
\* luminance is strictly greater than v and 0 otherwise (luminance exactly
\* v gives 0), with its alpha unchanged; at v = 128 a uniform gray image
\* of value 200 becomes all white and one of value 50 all black.
C19_ThresholdByLuminance ==
  [][\A value \in ThresholdValues :
       Threshold(value)
         => /\ DOMAIN imageData' = DOMAIN imageData
            /\ \A i \in DOMAIN imageData :
                 imageData'[i] = Binarized(imageData[i], value)]_vars

\* gray is the luminance of pixel rounded to an integer: no integer is
\* nearer to the luminance.
RoundedLuminance(gray, pixel) ==
  /\ 1000 * gray - ExactLuminance(pixel) <= 500
  /\ ExactLuminance(pixel) - 1000 * gray <= 500

\* C20: after grayscale() every pixel has R = G = B equal to the rounded
\* luminance of its input colour, and its alpha is unchanged; the pixel
\* (200, 100, 50) becomes 124 in its three channels.
C20_GrayscaleRoundedLuminance ==
  [][Grayscale
       => /\ DOMAIN imageData' = DOMAIN imageData
          /\ \A i \in DOMAIN imageData :
               /\ imageData'[i][1] = imageData'[i][2]
               /\ imageData'[i][2] = imageData'[i][3]
               /\ RoundedLuminance(imageData'[i][1], imageData[i])
               /\ imageData'[i][4] = imageData[i][4]
               /\ imageData[i] = <<200, 100, 50, 128>>
                    => imageData'[i] = <<124, 124, 124, 128>>]_vars

\* grayscale applied to an image with the pixel (200, 100, 50) and a pixel
\* whose luminance is rounded up.
C20_Witness ==
  /\ lastFilter.op = "grayscale"
  /\ lastFilter.input = <<<<200, 100, 50, 128>>, <<0, 255, 0, 255>>>>
  /\ imageData = <<<<124, 124, 124, 128>>, <<150, 150, 150, 255>>>>

\* The 0 or 255 the threshold at 128 makes of the pixels of a
\* neighbourhood: those of column x - half .. x + half and row
\* y - half .. y + half of the pixel at index i.
BinarizedNear(data, width, i, half) ==
  {Binarized(data[PixelIndex(ColumnOf(i, width) + k[1],
                             RowOf(i, width) + k[2], width)], 128)[1] :
     k \in Offsets(half)}

SetMin(values) == CHOOSE v \in values : \A w \in values : v <= w
SetMax(values) == CHOOSE v \in values : \A w \in values : v >= w

\* Each pixel whose neighbourhood lies inside the image is the minimum
\* (erosion) or maximum (dilation) of the binarized input over it.
InsideIsExtremum(kernelSize) ==
  \A i \in DOMAIN imageData :
    InLoops(ColumnOf(i, imageWidth), RowOf(i, imageWidth), kernelSize \div 2,
            imageData, imageWidth)
      => LET near == BinarizedNear(imageData, imageWidth, i,
                                   kernelSize \div 2)
         IN /\ Erosion(kernelSize) => imageData'[i][1] = SetMin(near)
            /\ Dilation(kernelSize) => imageData'[i][1] = SetMax(near)

\* C21: after erosion(k) or dilation(k) every colour channel of every
\* pixel, those within floor(k/2) of the border included, is 0 or 255, and
\* each pixel whose neighbourhood lies inside the image is the minimum
\* (erosion) or maximum (dilation) of the binarized input over it.
C21_MorphologyBinary ==
  [][\A kernelSize \in KernelSizes :
       (Erosion(kernelSize) \/ Dilation(kernelSize))
         => /\ \A i \in DOMAIN imageData' :
                 \A channel \in 1..3 : imageData'[i][channel] \in {0, 255}
            /\ InsideIsExtremum(kernelSize)]_vars

\* C22: after sobelEdgeDetection() or histogramEqualization() every pixel
\* of the image, border pixels included, has R = G = B.
C22_ColourDiscarded ==
  [][(SobelEdgeDetection \/ HistogramEqualization)
       => \A i \in DOMAIN imageData' :
            /\ imageData'[i][1] = imageData'[i][2]
            /\ imageData'[i][2] = imageData'[i][3]]_vars

\* The error that left an operation is a new error: a description in front
\* of the message of the exception that was raised.
DescribedError(message) ==
  /\ Len(message) >= 2
  /\ message[1] # OriginalMessage
  /\ message[Len(message)] = OriginalMessage

\* C23: for every operation of the filter pipeline an exception raised
\* inside the pixel operation is caught at the operation's boundary and
\* re-thrown as an error whose message is a description of the operation
\* followed by the original message.
C23_ErrorsDescribed ==
  [][\A op \in Operations :
       Operation(op, 50, 2, TRUE) => DescribedError(filterError')]_vars

\* What a history entry holds: its records in their order, each with its
\* data, its styles and the left and strokeWidth of its objects.
EntryContent(entry, shapes) ==
  [i \in DOMAIN entry |->
     [id |-> entry[i].id, data |-> entry[i].data,
      styles |-> entry[i].styles,
      objects |-> [j \in DOMAIN entry[i].objects |->
                     shapes[entry[i].objects[j][1]]]]]

\* C24: history entries are value copies: the content of an entry that
\* remains in the history (the ids and the order of its records, the
\* stored geometry and style of each) is after an add, an update by direct
\* manipulation, a delete, a style change, an undo or a redo what it was
\* before it.
C24_HistoryEntriesAreCopies ==
  [][\A i \in DOMAIN annotationHistory \cap DOMAIN annotationHistory' :
       annotationHistory'[i] = annotationHistory[i]
         => EntryContent(annotationHistory'[i], shapeState')
              = EntryContent(annotationHistory[i], shapeState)]_vars

C26_BothClicksUnderOneTool ==
  [][\A point \in Points :
       (MouseDown(point, 1) /\ Len(annotations') = Len(annotations) + 1)
         => LET record == Last(annotations')
            IN record.tool \in pressLog[record.data.start]]_vars

\* C27: drawing a revision cloud (press, moves, release) never removes from
\* the canvas a shape of a record of the store and never deletes a record
\* that the store held before the gesture step.
CloudGesture ==
  \/ reg.md.activeTool = "revision-cloud" /\ MouseDown(<<0, 0>>, 1)
  \/ reg.mm.activeTool = "revision-cloud" /\ MouseMove(<<0, 0>>)
  \/ reg.mu.activeTool = "revision-cloud" /\ MouseUp(1)

CommittedShapes ==
  UNION {Range(annotations[i].objects) : i \in DOMAIN annotations}
    \cap Range(canvasObjects)

C27_CloudKeepsCommitted ==
  [][(activeTool = "revision-cloud" /\ CloudGesture)
       => /\ CommittedShapes \subseteq Range(canvasObjects')
          /\ \A i \in DOMAIN annotations :
               \E j \in DOMAIN annotations' :
                 annotations'[j].id = annotations[i].id]_vars

\* C28: a record hidden in the manager stays hidden when the store changes
\* (a record is added, updated or deleted) and the hidden record remains in
\* the store.
C28_HiddenStaysHidden ==
  [][\A annotationId \in VisibleIds(annotations) \cap VisibleIds(annotations') :
       (annotationId \notin visibleAnnotations /\ annotations' # annotations)
         => annotationId \notin visibleAnnotations']_vars

\* C29: when a second applyFilter was started before the first completed
\* its load, and both have completed, the processed image is the second
\* filter applied to the first filter applied to the image the first call
\* started from, and the history has gained exactly two entries.
C29_BothFiltersApplied ==
  (/\ pendingFilters = <<>>
   /\ Len(pageLog.started) = 2
   /\ pageLog.tip)
    => LET first == pageLog.started[1]
           second == pageLog.started[2]
           base == Decoded(pageLog.base.src)
           both == PageApply(second.filterId, second.params,
                             PageApply(first.filterId, first.params, base))
       IN /\ Decoded(processedImage.src) = both
          /\ Len(imageHistory) = pageLog.length + 2

\* C30: every parameter the user has set for a filter, the value 0 too, is
\* the argument the filter operation is called with.
C30_SetParametersPassed ==
  [][\A k \in DOMAIN pendingFilters :
       ImageLoaded(k)
         => \A name \in DOMAIN pendingFilters[k].params :
              pageLog'.passed[name] = pendingFilters[k].params[name]]_vars
====
